---- MODULE Spec2Model ----
(***************************************************************************)
(* Model of the fluxofacil-bpo bookkeeping application:                    *)
(*   - the profiles / transactions tables with their constraints,          *)
(*   - the stored procedures register_user, authenticate_user,             *)
(*     update_user_password, verify_user_password, migrate_legacy_to_auth  *)
(*     and the identity-creation trigger handle_new_user,                  *)
(*   - the row-level policies left in force by the migrations,             *)
(*   - the client handlers signUp, signIn and handleSubmit.                *)
(***************************************************************************)
EXTENDS Integers, Sequences, FiniteSets, TLC

VARIABLES
    profiles,       \* public.profiles: set of rows
    authUsers,      \* auth.users: set of managed-auth identities
    transactions,   \* public.transactions: set of rows
    session,        \* the browser's managed-auth session: identity id or NULL
    user,           \* AuthProvider's context user (useState): record or NULL
    bpo_user,       \* localStorage['bpo_user']: record or NULL
    authLoading,    \* AuthProvider's loading state (useState(true))
    location,       \* window.location: the path of the page
    last,           \* the last call made and what it returned
    pending,        \* procedure calls between two of their statements (and, in SpecSteps, returned)
    policies,       \* row-level policies in force: set of policy records
    patterns,       \* public.patterns: set of rows
    api,            \* the last table-API request and what it returned
    formData,       \* FinancialDashboard form state
    loading,        \* FinancialDashboard loading flag
    sent,           \* the insert requests handleSubmit has made, in order
    toast,          \* the last notification shown, or NULL
    shown,          \* FinancialDashboard transactions state: the rows displayed
    reloading,      \* a loadTransactions call is in flight
    today,          \* the date loadTransactions last took from the clock, or NULL
    chart,          \* ChartAnalytics: its transactions prop, filter state and chartData
    analytics,      \* AnalyticsTab: filter state, data, totals, loading, fetches in flight
    passwordSection \* PasswordSection and its ConfirmPasswordDialog: state and requests

vars == <<profiles, authUsers, transactions, session, user, bpo_user, authLoading,
          location, last,
          pending, policies, patterns, api, formData, loading, sent, toast, shown,
          reloading, today, chart, analytics, passwordSection>>

dbVars     == <<profiles, authUsers, transactions>>
clientVars == <<session, user, bpo_user, authLoading, location>>
raceVars   == <<pending>>
rlsVars    == <<policies, patterns, api>>
formVars   == <<formData, loading, sent, toast, shown, reloading, today, chart, analytics,
                passwordSection>>

-----------------------------------------------------------------------------
(* Bounds of the model *)

MaxSalt == 2          \* gen_salt draws from 1..MaxSalt
MaxProfiles == 3      \* pool of gen_random_uuid() values for profiles.id
MaxUsers == 2         \* pool of auth.users ids
MaxConn == 2          \* register_user calls in flight at once
MaxSubmits == 2       \* insert requests one form session makes
MaxRows == 1          \* pool of gen_random_uuid() values for rows inserted through the table API

-----------------------------------------------------------------------------
(* Values *)

\* SQL NULL / JS null.  Ids and hashes are tuples, so NULL is the empty tuple.
NULL == <<>>

\* SQL booleans are three-valued.
SQL_TRUE  == "TRUE"
SQL_FALSE == "FALSE"
SQL_NULL  == "NULL"

ProfileIds == {<<"profile", n>> : n \in 1..MaxProfiles}
UserIds    == {<<"auth", n>> : n \in 1..MaxUsers}
Salts      == 1..MaxSalt

\* Tax-IDs as the digit strings Auth.tsx passes on, passwords, company names.
Cnpjs     == {"11", "22"}
Passwords == {"senha1", "senha2"}
Companies == {"Acme"}

BPO_SALT == "bpo_salt"

-----------------------------------------------------------------------------
(* Hashing.  A hash text is modelled by its first character followed by    *)
(* what determines the rest of the text.                                   *)

\* md5(text): 32 hex digits, a function of the text alone.
md5(text) == <<"hex", text>>

\* gen_salt('bf', 10): a bcrypt setting string "$2a$10$<salt>".
gen_salt(n) == <<"$", n>>

\* crypt(text, setting): the bcrypt hash of text under the salt of `setting`,
\* which is either a gen_salt() value or a previously computed hash.
crypt(text, setting) == <<"$", setting[2], text>>

\* x LIKE '$%'
LikeDollar(x) ==
    IF x = NULL THEN SQL_NULL
    ELSE IF x[1] = "$" THEN SQL_TRUE ELSE SQL_FALSE

\* a = b  and  a != b  in SQL
SqlEq(a, b) ==
    IF a = NULL \/ b = NULL THEN SQL_NULL
    ELSE IF a = b THEN SQL_TRUE ELSE SQL_FALSE

SqlNe(a, b) ==
    IF a = NULL \/ b = NULL THEN SQL_NULL
    ELSE IF a = b THEN SQL_FALSE ELSE SQL_TRUE

\* PL/pgSQL IF takes its THEN branch only when the condition is true.
IsTrue(b) == b = SQL_TRUE

\* password || cnpj || 'bpo_salt'
Salted(password, cnpj) == password \o cnpj \o BPO_SALT

-----------------------------------------------------------------------------
(* The database.  A db value is [profiles, authUsers, transactions].       *)
(* Timestamps (created_at, updated_at) are not modelled.                   *)

\* What a call hands back: an error message (or ""), the rows of a
\* RETURNS TABLE function, a boolean result, a uuid result.
Ret(err, rows, bool, uuid) == [err |-> err, rows |-> rows, bool |-> bool, uuid |-> uuid]
RetVoid       == Ret("", <<>>, "-", NULL)
RetRows(rows) == Ret("", rows, "-", NULL)
RetBool(b)    == Ret("", <<>>, b, NULL)
RetUuid(id)   == Ret("", <<>>, "-", id)
RetError(msg) == Ret(msg, <<>>, "-", NULL)

\* profiles_pkey, profiles_cnpj_key
profiles_cnpj_key(ps) ==
    \A a, b \in ps : a # b => (a.id # b.id /\ a.cnpj # b.cnpj)

\* The schema without profiles_user_id_key.
profiles_user_id_key_absent(ps) == TRUE

\* profiles_user_id_key: UNIQUE (user_id); NULLs never conflict.
profiles_user_id_key(ps) ==
    \A a, b \in ps : (a # b /\ a.user_id # NULL) => a.user_id # b.user_id

\* profiles_user_id_fkey: user_id REFERENCES auth.users(id)
profiles_user_id_fkey(ps, us) ==
    \A a \in ps : a.user_id # NULL => \E u \in us : u.id = a.user_id

\* transactions.user_id uuid NOT NULL
transactions_user_id_not_null(ts) == \A t \in ts : t.user_id # NULL

ConstraintsHold(db) ==
    /\ profiles_cnpj_key(db.profiles)
    /\ profiles_user_id_key(db.profiles)
    /\ profiles_user_id_fkey(db.profiles, db.authUsers)
    /\ transactions_user_id_not_null(db.transactions)

\* A procedure runs in one transaction: when a statement of it violates a
\* constraint the call raises and the database is left as it was.
Commit(db, db2, ret) ==
    IF ConstraintsHold(db2) THEN [db |-> db2, ret |-> ret]
    ELSE [db |-> db, ret |-> RetError("constraint violation")]

Raise(db, msg) == [db |-> db, ret |-> RetError(msg)]
Return(db, ret) == [db |-> db, ret |-> ret]

\* SELECT ... FROM profiles WHERE cnpj = cnpj_input LIMIT 1
ProfileByCnpj(db, cnpj_input) == {r \in db.profiles : r.cnpj = cnpj_input}

\* UPDATE profiles SET ... WHERE id = id; row is the updated image of the
\* profile with that id (id is the primary key).
UpdateProfile(db, id, row) ==
    [db EXCEPT !.profiles = {IF r.id = id THEN row ELSE r : r \in db.profiles}]

CNPJ_JA_CADASTRADO == "CNPJ já cadastrado"

\* register_user without its IF EXISTS check: the insert runs into
\* profiles_cnpj_key instead.
register_user_unchecked(db, cnpj_input, company_name_input, password_input, new_user_id, salt) ==
    LET password_hashed == crypt(Salted(password_input, cnpj_input), gen_salt(salt))
        row == [id |-> new_user_id, cnpj |-> cnpj_input,
                company_name |-> company_name_input,
                password_hash |-> password_hashed, user_id |-> NULL]
    IN Commit(db, [db EXCEPT !.profiles = @ \cup {row}], RetUuid(new_user_id))

\* register_user (bcrypt revision)
register_user(db, cnpj_input, company_name_input, password_input, new_user_id, salt) ==
    IF \E r \in db.profiles : r.cnpj = cnpj_input
    THEN Raise(db, CNPJ_JA_CADASTRADO)
    ELSE LET password_hashed == crypt(Salted(password_input, cnpj_input), gen_salt(salt))
             row == [id |-> new_user_id, cnpj |-> cnpj_input,
                     company_name |-> company_name_input,
                     password_hash |-> password_hashed, user_id |-> NULL]
         IN Commit(db, [db EXCEPT !.profiles = @ \cup {row}], RetUuid(new_user_id))

\* The row authenticate_user returns: (profile_id, profile_cnpj, profile_company_name)
PublicRow(prof) ==
    [profile_id |-> prof.id, profile_cnpj |-> prof.cnpj,
     profile_company_name |-> prof.company_name]

\* authenticate_user whose upgrade hashes the bare password, as the first
\* revision of register_user did: crypt(password_input, gen_salt('bf')).
authenticate_user_upgrade_unsalted(db, cnpj_input, password_input, salt) ==
    LET found == ProfileByCnpj(db, cnpj_input) IN
    IF found = {} THEN Return(db, RetRows(<<>>))
    ELSE
      LET prof == CHOOSE r \in found : TRUE
          text == Salted(password_input, cnpj_input)
      IN
      IF IsTrue(LikeDollar(prof.password_hash))
      THEN IF IsTrue(SqlEq(crypt(text, prof.password_hash), prof.password_hash))
           THEN Return(db, RetRows(<<PublicRow(prof)>>))
           ELSE Return(db, RetRows(<<>>))
      ELSE IF IsTrue(SqlEq(md5(text), prof.password_hash))
           THEN LET upgraded(r) ==
                      [r EXCEPT !.password_hash = crypt(password_input, gen_salt(salt))]
                IN Commit(db, UpdateProfile(db, prof.id, upgraded(prof)),
                          RetRows(<<PublicRow(prof)>>))
           ELSE Return(db, RetRows(<<>>))

\* authenticate_user that raises for a tax-ID it does not find.
authenticate_user_reveals(db, cnpj_input, password_input, salt) ==
    LET found == ProfileByCnpj(db, cnpj_input) IN
    IF found = {} THEN Raise(db, "CNPJ não encontrado")
    ELSE
      LET prof == CHOOSE r \in found : TRUE
          text == Salted(password_input, cnpj_input)
      IN
      IF IsTrue(LikeDollar(prof.password_hash))
      THEN IF IsTrue(SqlEq(crypt(text, prof.password_hash), prof.password_hash))
           THEN Return(db, RetRows(<<PublicRow(prof)>>))
           ELSE Return(db, RetRows(<<>>))
      ELSE IF IsTrue(SqlEq(md5(text), prof.password_hash))
           THEN LET upgraded(r) == [r EXCEPT !.password_hash = crypt(text, gen_salt(salt))]
                IN Commit(db, UpdateProfile(db, prof.id, upgraded(prof)),
                          RetRows(<<PublicRow(prof)>>))
           ELSE Return(db, RetRows(<<>>))

\* authenticate_user whose legacy branch returns the row without the UPDATE.
authenticate_user_no_upgrade(db, cnpj_input, password_input, salt) ==
    LET found == ProfileByCnpj(db, cnpj_input) IN
    IF found = {} THEN Return(db, RetRows(<<>>))
    ELSE
      LET prof == CHOOSE r \in found : TRUE
          text == Salted(password_input, cnpj_input)
      IN
      IF IsTrue(LikeDollar(prof.password_hash))
      THEN IF IsTrue(SqlEq(crypt(text, prof.password_hash), prof.password_hash))
           THEN Return(db, RetRows(<<PublicRow(prof)>>))
           ELSE Return(db, RetRows(<<>>))
      ELSE IF IsTrue(SqlEq(md5(text), prof.password_hash))
           THEN Return(db, RetRows(<<PublicRow(prof)>>))
           ELSE Return(db, RetRows(<<>>))

\* authenticate_user: bcrypt first, then legacy MD5 with transparent upgrade
authenticate_user(db, cnpj_input, password_input, salt) ==
    LET found == ProfileByCnpj(db, cnpj_input) IN
    IF found = {} THEN Return(db, RetRows(<<>>))
    ELSE
      LET prof == CHOOSE r \in found : TRUE
          text == Salted(password_input, cnpj_input)
      IN
      IF IsTrue(LikeDollar(prof.password_hash))
      THEN IF IsTrue(SqlEq(crypt(text, prof.password_hash), prof.password_hash))
           THEN Return(db, RetRows(<<PublicRow(prof)>>))
           ELSE Return(db, RetRows(<<>>))
      ELSE LET legacy_hash == md5(text) IN
           IF IsTrue(SqlEq(legacy_hash, prof.password_hash))
           THEN LET upgraded(r) == [r EXCEPT !.password_hash = crypt(text, gen_salt(salt))]
                IN Commit(db, UpdateProfile(db, prof.id, upgraded(prof)),
                          RetRows(<<PublicRow(prof)>>))
           ELSE Return(db, RetRows(<<>>))

\* update_user_password whose UPDATE sets the hash and not user_id.
update_user_password_no_link(db, user_id_input, current_password_input, new_password_input, cnpj_input, salt) ==
    LET found == ProfileByCnpj(db, cnpj_input) IN
    IF found = {} THEN Return(db, RetBool(SQL_FALSE))
    ELSE
      LET prof == CHOOSE r \in found : TRUE
          text == Salted(current_password_input, cnpj_input)
          wrong ==
            IF IsTrue(LikeDollar(prof.password_hash))
            THEN IsTrue(SqlNe(crypt(text, prof.password_hash), prof.password_hash))
            ELSE IsTrue(SqlNe(md5(text), prof.password_hash))
          changed(r) ==
            [r EXCEPT !.password_hash =
                          crypt(Salted(new_password_input, cnpj_input), gen_salt(salt))]
      IN
      IF wrong THEN Return(db, RetBool(SQL_FALSE))
      ELSE Commit(db, UpdateProfile(db, prof.id, changed(prof)), RetBool(SQL_TRUE))

\* update_user_password whose UPDATE sets user_id = user_id_input.
update_user_password_relink(db, user_id_input, current_password_input, new_password_input, cnpj_input, salt) ==
    LET found == ProfileByCnpj(db, cnpj_input) IN
    IF found = {} THEN Return(db, RetBool(SQL_FALSE))
    ELSE
      LET prof == CHOOSE r \in found : TRUE
          text == Salted(current_password_input, cnpj_input)
          wrong ==
            IF IsTrue(LikeDollar(prof.password_hash))
            THEN IsTrue(SqlNe(crypt(text, prof.password_hash), prof.password_hash))
            ELSE IsTrue(SqlNe(md5(text), prof.password_hash))
          changed(r) ==
            [r EXCEPT !.password_hash =
                          crypt(Salted(new_password_input, cnpj_input), gen_salt(salt)),
                      !.user_id = user_id_input]
      IN
      IF wrong THEN Return(db, RetBool(SQL_FALSE))
      ELSE Commit(db, UpdateProfile(db, prof.id, changed(prof)), RetBool(SQL_TRUE))

\* update_user_password: profile found by CNPJ alone
update_user_password(db, user_id_input, current_password_input, new_password_input, cnpj_input, salt) ==
    LET found == ProfileByCnpj(db, cnpj_input) IN
    IF found = {} THEN Return(db, RetBool(SQL_FALSE))
    ELSE
      LET prof == CHOOSE r \in found : TRUE
          text == Salted(current_password_input, cnpj_input)
          wrong ==
            IF IsTrue(LikeDollar(prof.password_hash))
            THEN IsTrue(SqlNe(crypt(text, prof.password_hash), prof.password_hash))
            ELSE IsTrue(SqlNe(md5(text), prof.password_hash))
          changed(r) ==
            [r EXCEPT !.password_hash =
                          crypt(Salted(new_password_input, cnpj_input), gen_salt(salt)),
                      !.user_id = IF r.user_id # NULL THEN r.user_id ELSE user_id_input]
      IN
      IF wrong THEN Return(db, RetBool(SQL_FALSE))
      ELSE Commit(db, UpdateProfile(db, prof.id, changed(prof)), RetBool(SQL_TRUE))

\* verify_user_password: profile found by CNPJ alone
verify_user_password(db, user_id_input, password_input, cnpj_input) ==
    LET found == ProfileByCnpj(db, cnpj_input) IN
    IF found = {} THEN Return(db, RetBool(SQL_FALSE))
    ELSE
      LET prof == CHOOSE r \in found : TRUE
          text == Salted(password_input, cnpj_input)
      IN
      IF IsTrue(LikeDollar(prof.password_hash))
      THEN Return(db, RetBool(SqlEq(crypt(text, prof.password_hash), prof.password_hash)))
      ELSE Return(db, RetBool(SqlEq(md5(text), prof.password_hash)))

-----------------------------------------------------------------------------
(* Managed auth (auth.users) and the procedures that link profiles to it   *)

\* cnpjToEmail: the digits of the tax-ID followed by '@bpo.local'.  The
\* tax-IDs of the model are digit strings already.
cnpjToEmail(cnpj) == cnpj \o "@bpo.local"

\* The signup metadata objects: data: { cnpj, company_name }, or without one
\* of the keys, or empty.
MetaData(cnpj, company_name) == [cnpj |-> cnpj, company_name |-> company_name]
MetaCnpjOnly(cnpj) == [cnpj |-> cnpj]
MetaNone == <<>>

\* obj ->> key IS NULL
JsonIsNull(obj, key) == key \notin DOMAIN obj

\* handle_new_user: AFTER INSERT ON auth.users trigger.  new is the inserted
\* identity [id, raw_user_meta_data]; new_profile_id is the id default.
handle_new_user(db, new, new_profile_id) ==
    IF JsonIsNull(new.raw_user_meta_data, "cnpj")
         \/ JsonIsNull(new.raw_user_meta_data, "company_name")
    THEN Return(db, RetVoid)
    ELSE IF \E r \in db.profiles : r.user_id = new.id
         THEN Return(db, RetVoid)         \* ON CONFLICT (user_id) DO NOTHING
         ELSE LET row == [id |-> new_profile_id,
                          cnpj |-> new.raw_user_meta_data.cnpj,
                          company_name |-> new.raw_user_meta_data.company_name,
                          password_hash |-> NULL, user_id |-> new.id]
              IN Commit(db, [db EXCEPT !.profiles = @ \cup {row}], RetVoid)

USER_ALREADY_REGISTERED == "User already registered"
DATABASE_ERROR_SAVING_NEW_USER == "Database error saving new user"
INVALID_LOGIN_CREDENTIALS == "Invalid login credentials"

\* supabase.auth.signUp({email, password, options: {data}}): inserts the
\* identity; the trigger runs in the same transaction, so when it raises no
\* identity is created.
auth_signUp(db, email, password, data, new_id, new_profile_id) ==
    IF \E u \in db.authUsers : u.email = email
    THEN Raise(db, USER_ALREADY_REGISTERED)
    ELSE LET new == [id |-> new_id, raw_user_meta_data |-> data]
             row == [id |-> new_id, email |-> email, password |-> password]
             db1 == [db EXCEPT !.authUsers = @ \cup {row}]
             trg == handle_new_user(db1, new, new_profile_id)
         IN IF trg.ret.err # "" THEN Raise(db, DATABASE_ERROR_SAVING_NEW_USER)
            ELSE [db |-> trg.db, ret |-> RetUuid(new_id)]

\* supabase.auth.signInWithPassword({email, password}): the identity's id in
\* ret.uuid, or an error.
auth_signInWithPassword(db, email, password) ==
    LET match == {u \in db.authUsers : u.email = email /\ u.password = password} IN
    IF match = {} THEN Raise(db, INVALID_LOGIN_CREDENTIALS)
    ELSE Return(db, RetUuid((CHOOSE u \in match : TRUE).id))

\* migrate_legacy_to_auth that moves the transactions only when the record
\* it read first is linked to the caller, without reading it again.
migrate_legacy_to_auth_stale_guard(db, auth_uid, cnpj_input) ==
    LET found == ProfileByCnpj(db, cnpj_input) IN
    IF found = {} THEN Return(db, RetVoid)
    ELSE
      LET prof == CHOOSE r \in found : TRUE
          link(r) == [r EXCEPT !.user_id = auth_uid]
          db1 == IF prof.user_id = NULL THEN UpdateProfile(db, prof.id, link(prof)) ELSE db
          db2 == IF prof.user_id = auth_uid
                 THEN [db1 EXCEPT !.transactions =
                         {IF t.user_id = prof.id THEN [t EXCEPT !.user_id = auth_uid] ELSE t
                            : t \in @}]
                 ELSE db1
      IN Commit(db, db2, RetVoid)

\* migrate_legacy_to_auth; auth_uid is auth.uid() of the caller (NULL for anon)
migrate_legacy_to_auth(db, auth_uid, cnpj_input) ==
    LET found == ProfileByCnpj(db, cnpj_input) IN
    IF found = {} THEN Return(db, RetVoid)
    ELSE
      LET prof == CHOOSE r \in found : TRUE
          link(r) == [r EXCEPT !.user_id = auth_uid]
          db1 == IF prof.user_id = NULL THEN UpdateProfile(db, prof.id, link(prof)) ELSE db
          prof2 == CHOOSE r \in ProfileByCnpj(db1, cnpj_input) : TRUE
          db2 == [db1 EXCEPT !.transactions =
                    {IF t.user_id = prof2.id THEN [t EXCEPT !.user_id = auth_uid] ELSE t
                       : t \in @}]
      IN Commit(db, db2, RetVoid)

-----------------------------------------------------------------------------
(* State shared by the specifications *)

Db == [profiles |-> profiles, authUsers |-> authUsers, transactions |-> transactions]

SetDb(db) ==
    /\ profiles' = db.profiles
    /\ authUsers' = db.authUsers
    /\ transactions' = db.transactions

\* gen_random_uuid() never returns an id in use; the model takes the first
\* unused id of the pool.
Unused(pool, used) == {id \in pool : id \notin used /\ \A o \in pool : o \notin used => o[2] >= id[2]}
FreshProfileIds == Unused(ProfileIds, {r.id : r \in profiles} \cup {t.user_id : t \in transactions})
FreshUserIds    == Unused(UserIds, {u.id : u \in authUsers})

\* The record of a call: the procedure or handler, its arguments, what the
\* backend returned, the error text the client handler returned, and whether
\* the call changed a table.
Call(op, cnpj, password, uid, ret, error, changed) ==
    [op |-> op, cnpj |-> cnpj, password |-> password, uid |-> uid,
     ret |-> ret, error |-> error, changed |-> changed]

NoCall == Call("none", "", "", NULL, RetVoid, "", FALSE)

\* A legacy profile: created by the MD5 revision of register_user, not linked.
LegacyProfile(id, cnpj, company_name, password) ==
    [id |-> id, cnpj |-> cnpj, company_name |-> company_name,
     password_hash |-> md5(Salted(password, cnpj)), user_id |-> NULL]

IdleClient == /\ session = NULL /\ user = NULL /\ bpo_user = NULL
              /\ authLoading = FALSE /\ location = "/"
IdleRace   == pending = {}
NoApi == [op |-> "none", table |-> "", caller |-> NULL, rows |-> {}, new |-> {},
          err |-> ""]
IdleRls    == policies = {} /\ patterns = {} /\ api = NoApi
IdleForm   == /\ formData = <<>> /\ loading = FALSE /\ sent = <<>>
              /\ toast = NULL /\ shown = {} /\ reloading = FALSE /\ today = NULL
              /\ chart = NULL /\ analytics = NULL /\ passwordSection = NULL

-----------------------------------------------------------------------------------------------------------------------------------------------------
(* The stored procedures as RPCs any client may call, and identity         *)
(* creation.  Each action runs one call and records it in `last`.          *)

\* The caller identities of an RPC: auth.uid() of an existing identity, or
\* NULL for the anon role.
Callers == {u.id : u \in authUsers} \cup {NULL}

\* Values a client may pass as user_id_input: an identity id, the id of a
\* profile (the legacy client's user.id), or nothing.
UserIdInputs == UserIds \cup {r.id : r \in profiles} \cup {NULL}

RegisterUser(c, n, p, s) ==
    \E id \in FreshProfileIds :
      LET r == register_user(Db, c, n, p, id, s) IN
      /\ SetDb(r.db)
      /\ last' = Call("register_user", c, p, NULL, r.ret, "", r.db # Db)
      /\ UNCHANGED <<clientVars, raceVars, rlsVars, formVars>>

AuthenticateUser(c, p, s) ==
    LET r == authenticate_user(Db, c, p, s) IN
    /\ SetDb(r.db)
    /\ last' = Call("authenticate_user", c, p, NULL, r.ret, "", r.db # Db)
    /\ UNCHANGED <<clientVars, raceVars, rlsVars, formVars>>

UpdateUserPassword(uid, cur, new, c, s) ==
    LET r == update_user_password(Db, uid, cur, new, c, s) IN
    /\ SetDb(r.db)
    /\ last' = Call("update_user_password", c, cur, uid, r.ret, "", r.db # Db)
    /\ UNCHANGED <<clientVars, raceVars, rlsVars, formVars>>

VerifyUserPassword(uid, p, c) ==
    LET r == verify_user_password(Db, uid, p, c) IN
    /\ SetDb(r.db)
    /\ last' = Call("verify_user_password", c, p, uid, r.ret, "", r.db # Db)
    /\ UNCHANGED <<clientVars, raceVars, rlsVars, formVars>>

\* An identity is created (supabase.auth.signUp); the trigger runs.
AuthSignUp(c, p, data) ==
    \E id \in FreshUserIds, pid \in FreshProfileIds :
      LET r == auth_signUp(Db, cnpjToEmail(c), p, data, id, pid) IN
      /\ SetDb(r.db)
      /\ last' = Call("auth.signUp", c, p, NULL, r.ret, "", r.db # Db) @@ [data |-> data]
      /\ UNCHANGED <<clientVars, raceVars, rlsVars, formVars>>

MigrateLegacyToAuth(uid, c) ==
    LET r == migrate_legacy_to_auth(Db, uid, c) IN
    /\ SetDb(r.db)
    /\ last' = Call("migrate_legacy_to_auth", c, "", uid, r.ret, "", r.db # Db)
    /\ UNCHANGED <<clientVars, raceVars, rlsVars, formVars>>

-----------------------------------------------------------------------------
(* AuthProvider: the client handlers.  A client value is                   *)
(* [session, user, bpo_user]; a handler yields the new database, the new   *)
(* client and the error text it returns ("" for {}).                       *)

Client == [session |-> session, user |-> user, bpo_user |-> bpo_user]

SetClient(cl) ==
    /\ session' = cl.session
    /\ user' = cl.user
    /\ bpo_user' = cl.bpo_user
    /\ UNCHANGED <<authLoading, location>>

Outcome(db, cl, ret, error) == [db |-> db, client |-> cl, ret |-> ret, error |-> error]

CNPJ_OU_SENHA_INCORRETOS == "CNPJ ou senha incorretos"
ERRO_NA_MIGRACAO_DA_CONTA == "Erro na migração da conta"

\* error.message.includes(text), on the messages the backend of the model
\* produces: none of them contains another.
Includes(message, text) == message = text

\* signUp of the legacy AuthProvider: register_user through RPC.
AuthContext_signUp(db, cl, cnpj, companyName, password, new_user_id, salt) ==
    LET cl1 == [cl EXCEPT !.session = NULL]      \* cleanupAuthState(); auth.signOut()
        r == register_user(db, cnpj, companyName, password, new_user_id, salt)
    IN IF r.ret.err # ""
       THEN IF Includes(r.ret.err, CNPJ_JA_CADASTRADO)
            THEN Outcome(r.db, cl1, r.ret, CNPJ_JA_CADASTRADO)
            ELSE Outcome(r.db, cl1, r.ret, r.ret.err)
       ELSE Outcome(r.db, cl1, r.ret, "")

\* loadUserProfile: the profile linked to userId, read through the table API
\* under "Profiles: select own"; sets the context user and localStorage when
\* there is one.
loadUserProfile(db, cl, userId) ==
    LET found == {r \in db.profiles : r.user_id = userId} IN
    IF found = {} THEN cl
    ELSE LET profile == CHOOSE r \in found : TRUE
             userData == [id |-> userId, cnpj |-> profile.cnpj,
                          company_name |-> profile.company_name]
         IN [cl EXCEPT !.user = userData, !.bpo_user = userData]

\* signIn of the managed-auth AuthProvider, with the legacy fallback.
signIn(db, cl, cnpj, password, salt, new_id, new_profile_id) ==
    LET cl0 == [cl EXCEPT !.session = NULL]      \* cleanupAuthState(); auth.signOut()
        email == cnpjToEmail(cnpj)
        auth == auth_signInWithPassword(db, email, password)
    IN
    IF auth.ret.err # ""
    THEN \* Fallback to legacy authentication
      LET legacy == authenticate_user(db, cnpj, password, salt) IN
      IF legacy.ret.err # "" \/ Len(legacy.ret.rows) = 0
      THEN Outcome(legacy.db, cl0, legacy.ret, CNPJ_OU_SENHA_INCORRETOS)
      ELSE
        LET up == auth_signUp(legacy.db, email, password,
                              MetaData(cnpj, legacy.ret.rows[1].profile_company_name),
                              new_id, new_profile_id)
        IN
        IF up.ret.err # ""
        THEN Outcome(up.db, cl0, up.ret, ERRO_NA_MIGRACAO_DA_CONTA)
        ELSE
          LET retry == auth_signInWithPassword(up.db, email, password) IN
          IF retry.ret.err # ""
          THEN Outcome(up.db, cl0, retry.ret, ERRO_NA_MIGRACAO_DA_CONTA)
          ELSE
            LET uid == retry.ret.uuid
                mig == migrate_legacy_to_auth(up.db, uid, cnpj)
                cl1 == loadUserProfile(mig.db, [cl0 EXCEPT !.session = uid], uid)
            IN Outcome(mig.db, cl1, retry.ret, "")
    ELSE \* Successful Supabase Auth login
      LET uid == auth.ret.uuid
          mig == migrate_legacy_to_auth(db, uid, cnpj)
          cl1 == loadUserProfile(mig.db, [cl0 EXCEPT !.session = uid], uid)
      IN Outcome(mig.db, cl1, auth.ret, "")

SIGNUPS_NOT_ALLOWED == "Signups not allowed for this instance"
EMAIL_NOT_CONFIRMED == "Email not confirmed"
CONTA_CRIADA_VERIFIQUE == "Conta criada. Verifique seu e-mail para ativar."

\* signUp that registers through the legacy RPC when the sign-up request fails.
signUp_with_fallback(db, cl, cnpj, companyName, password, new_id, new_profile_id, available, confirm) ==
    LET cl0 == [cl EXCEPT !.session = NULL]
        email == cnpjToEmail(cnpj)
        up == IF available
              THEN auth_signUp(db, email, password, MetaData(cnpj, companyName),
                               new_id, new_profile_id)
              ELSE Raise(db, SIGNUPS_NOT_ALLOWED)
    IN
    IF up.ret.err # ""
    THEN LET r == register_user(db, cnpj, companyName, password, new_profile_id, 1) IN
         Outcome(r.db, cl0, r.ret, r.ret.err)
    ELSE
      LET login == IF confirm THEN Raise(up.db, EMAIL_NOT_CONFIRMED)
                   ELSE auth_signInWithPassword(up.db, email, password)
      IN
      IF login.ret.err = ""
      THEN LET uid == login.ret.uuid
               cl1 == loadUserProfile(up.db, [cl0 EXCEPT !.session = uid], uid)
           IN Outcome(up.db, cl1, login.ret, "")
      ELSE Outcome(up.db, cl0, login.ret, CONTA_CRIADA_VERIFIQUE)

\* signUp of the managed-auth AuthProvider.  available: the sign-up endpoint
\* accepts requests; confirm: the project requires e-mail confirmation, so
\* the immediate sign-in is refused.
signUp(db, cl, cnpj, companyName, password, new_id, new_profile_id, available, confirm) ==
    LET cl0 == [cl EXCEPT !.session = NULL]      \* cleanupAuthState(); auth.signOut()
        email == cnpjToEmail(cnpj)
        up == IF available
              THEN auth_signUp(db, email, password, MetaData(cnpj, companyName),
                               new_id, new_profile_id)
              ELSE Raise(db, SIGNUPS_NOT_ALLOWED)
    IN
    IF up.ret.err # ""
    THEN IF up.ret.err = USER_ALREADY_REGISTERED     \* includes 'already' / 'registered'
         THEN Outcome(up.db, cl0, up.ret, CNPJ_JA_CADASTRADO)
         ELSE Outcome(up.db, cl0, up.ret, up.ret.err)
    ELSE
      \* Try immediate sign in (works if email confirmation disabled)
      LET login == IF confirm THEN Raise(up.db, EMAIL_NOT_CONFIRMED)
                   ELSE auth_signInWithPassword(up.db, email, password)
      IN
      IF login.ret.err = ""
      THEN LET uid == login.ret.uuid
               cl1 == loadUserProfile(up.db, [cl0 EXCEPT !.session = uid], uid)
           IN Outcome(up.db, cl1, login.ret, "")
      ELSE Outcome(up.db, cl0, login.ret, CONTA_CRIADA_VERIFIQUE)

SignUp(c, n, p, available, confirm) ==
    \E id \in FreshUserIds, pid \in FreshProfileIds :
      LET o == signUp(Db, Client, c, n, p, id, pid, available, confirm) IN
      /\ SetDb(o.db)
      /\ SetClient(o.client)
      /\ last' = Call("signUp (auth)", c, p, NULL, o.ret, o.error, o.db # Db)
                    @@ [available |-> available]
      /\ UNCHANGED <<raceVars, rlsVars, formVars>>

SignUpLegacy(c, n, p, s) ==
    \E id \in FreshProfileIds :
      LET o == AuthContext_signUp(Db, Client, c, n, p, id, s) IN
      /\ SetDb(o.db)
      /\ SetClient(o.client)
      /\ last' = Call("signUp", c, p, NULL, o.ret, o.error, o.db # Db)
      /\ UNCHANGED <<raceVars, rlsVars, formVars>>

SignIn(c, p, s) ==
    \E id \in FreshUserIds, pid \in FreshProfileIds :
      LET o == signIn(Db, Client, c, p, s, id, pid) IN
      /\ SetDb(o.db)
      /\ SetClient(o.client)
      /\ last' = Call("signIn", c, p, NULL, o.ret, o.error, o.db # Db)
      /\ UNCHANGED <<raceVars, rlsVars, formVars>>

\* register_user as two steps of a READ COMMITTED transaction, so that calls
\* interleave: the IF EXISTS check, then the insert.
FreeConn == CHOOSE k \in 1..MaxConn :
               /\ \A call \in pending : call.conn # k
               /\ \A j \in 1..MaxConn : (\A call \in pending : call.conn # j) => j >= k

RegisterUserCheck(c, n, p, s) ==
    /\ Cardinality(pending) < MaxConn
    /\ IF \E r \in profiles : r.cnpj = c
       THEN /\ last' = Call("register_user", c, p, NULL, RetError(CNPJ_JA_CADASTRADO), "", FALSE)
            /\ UNCHANGED pending
       ELSE /\ pending' = pending \cup {[conn |-> FreeConn, cnpj |-> c, company_name |-> n,
                                         password |-> p, salt |-> s]}
            /\ last' = Call("register_user:check", c, p, NULL, RetVoid, "", FALSE)
    /\ UNCHANGED <<dbVars, clientVars, rlsVars, formVars>>

RegisterUserInsert(call) ==
    \E id \in FreshProfileIds :
      LET row == [id |-> id, cnpj |-> call.cnpj, company_name |-> call.company_name,
                  password_hash |-> crypt(Salted(call.password, call.cnpj),
                                          gen_salt(call.salt)),
                  user_id |-> NULL]
          r == Commit(Db, [Db EXCEPT !.profiles = @ \cup {row}], RetUuid(id))
      IN /\ SetDb(r.db)
         /\ pending' = pending \ {call}
         /\ last' = Call("register_user", call.cnpj, call.password, NULL, r.ret, "", r.db # Db)
         /\ UNCHANGED <<clientVars, rlsVars, formVars>>

\* Legacy data: a legacy profile for each tax-ID of S, with password pw[c],
\* each owning one transaction under its profile id.
LegacyDb(S, pw) ==
    LET k == [c \in Cnpjs |-> IF c = "11" THEN 1 ELSE 2] IN
    [profiles |-> {LegacyProfile(<<"profile", k[c]>>, c, "Acme", pw[c]) : c \in S},
     authUsers |-> {},
     transactions |-> {[id |-> k[c], user_id |-> <<"profile", k[c]>>] : c \in S}]

InitDb(dbs) ==
    /\ \E db \in dbs :
          /\ profiles = db.profiles
          /\ authUsers = db.authUsers
          /\ transactions = db.transactions
    /\ last = NoCall
    /\ IdleClient /\ IdleRace /\ IdleRls /\ IdleForm

-----------------------------------------------------------------------------
(* Specification Spec: the credential procedures on one tax-ID.  Tax-ID    *)
(* "11" may hold a legacy profile, be registered or get an identity;       *)
(* tax-ID "22" is asked for but never registered.                          *)

Registrable == {"11"}

Init == InitDb({LegacyDb(S, pw) : S \in SUBSET Registrable, pw \in [Cnpjs -> Passwords]})

Next ==
    \/ \E c \in Registrable, n \in Companies, p \in Passwords, s \in Salts :
          RegisterUser(c, n, p, s)
    \/ \E c \in Cnpjs, p \in Passwords, s \in Salts : AuthenticateUser(c, p, s)
    \/ \E uid \in UserIdInputs, cur \in Passwords, new \in Passwords, c \in Cnpjs, s \in Salts :
          UpdateUserPassword(uid, cur, new, c, s)
    \/ \E uid \in UserIdInputs, p \in Passwords, c \in Cnpjs : VerifyUserPassword(uid, p, c)
    \/ \E c \in Registrable, p \in Passwords :
          \E data \in {MetaData(c, "Acme"), MetaCnpjOnly(c), MetaNone} : AuthSignUp(c, p, data)
    \/ \E uid \in Callers, c \in Cnpjs : MigrateLegacyToAuth(uid, c)
    \/ \E c \in Registrable, n \in Companies, p \in Passwords, s \in Salts :
          SignUpLegacy(c, n, p, s)
    \/ \E c \in Cnpjs, p \in Passwords, s \in Salts : SignIn(c, p, s)
    \/ \E c \in Registrable, n \in Companies, p \in Passwords, available, confirm \in BOOLEAN :
          SignUp(c, n, p, available, confirm)

Spec == Init /\ [][Next]_vars

-----------------------------------------------------------------------------
(* Specification SpecLink: the procedures that create and link profiles,   *)
(* on two tax-IDs and two identities, with one password.                   *)

OnePassword == {"senha1"}
OneSalt == {1}

InitLink == InitDb({LegacyDb(S, pw) : S \in SUBSET Cnpjs, pw \in [Cnpjs -> OnePassword]})

NextLink ==
    \/ \E c \in Cnpjs, n \in Companies, p \in OnePassword, s \in OneSalt :
          RegisterUserCheck(c, n, p, s)
    \/ \E call \in pending : RegisterUserInsert(call)
    \/ \E c \in Cnpjs, p \in OnePassword, s \in OneSalt : AuthenticateUser(c, p, s)
    \/ \E uid \in UserIdInputs, p \in OnePassword, c \in Cnpjs, s \in OneSalt :
          UpdateUserPassword(uid, p, p, c, s)
    \/ \E c \in Cnpjs, p \in OnePassword :
          \E data \in {MetaData(c, "Acme"), MetaNone} : AuthSignUp(c, p, data)
    \/ \E uid \in Callers, c \in Cnpjs : MigrateLegacyToAuth(uid, c)

SpecLink == InitLink /\ [][NextLink]_vars

-----------------------------------------------------------------------------
(* Row-level security: the policy statements of the migrations, in the      *)
(* order of their history, and the table API evaluated under them.          *)

\* Policy expressions
P_TRUE == "true"
P_OWN == "auth.uid() = user_id"
P_OWN_ID == "auth.uid() = id"
P_IN_PROFILES == "user_id IN (SELECT id FROM public.profiles)"
P_IN_PROFILES_CNPJ == "user_id IN (SELECT id FROM public.profiles WHERE cnpj IS NOT NULL)"
P_NONE == ""

\* CREATE POLICY name ON table FOR cmd [TO roles] [USING (..)] [WITH CHECK (..)]
CreatePolicy(table, name, cmd, roles, using, check) ==
    [kind |-> "create", table |-> table, name |-> name, cmd |-> cmd, roles |-> roles,
     using |-> using, check |-> check]
DropPolicy(table, name) == [kind |-> "drop", table |-> table, name |-> name]
\* DROP TABLE ... CASCADE drops the table's policies with it
DropTable(table) == [kind |-> "drop_table", table |-> table]

\* The first schema: profiles keyed by the identity id, owner-only transactions.
Migration_part_003 ==
    << CreatePolicy("profiles", "Users can view their own profile", "SELECT", "public", P_OWN_ID, P_NONE),
       CreatePolicy("profiles", "Users can update their own profile", "UPDATE", "public", P_OWN_ID, P_NONE),
       CreatePolicy("transactions", "Users can view their own transactions", "SELECT", "public", P_OWN, P_NONE),
       CreatePolicy("transactions", "Users can create their own transactions", "INSERT", "public", P_NONE, P_OWN),
       CreatePolicy("transactions", "Users can update their own transactions", "UPDATE", "public", P_OWN, P_NONE),
       CreatePolicy("transactions", "Users can delete their own transactions", "DELETE", "public", P_OWN, P_NONE) >>

Migration_20250807005142 ==
    << CreatePolicy("profiles", "Allow user registration", "INSERT", "public", P_NONE, P_TRUE) >>

\* The custom-auth rebuilds of profiles
ProfilesCustomAuth ==
    << DropTable("profiles"),
       CreatePolicy("profiles", "Users can view their own profile", "SELECT", "public", P_TRUE, P_NONE),
       CreatePolicy("profiles", "Allow user registration", "INSERT", "public", P_NONE, P_TRUE),
       CreatePolicy("profiles", "Users can update their own profile", "UPDATE", "public", P_TRUE, P_NONE) >>

TransactionsCustomAuth(expr) ==
    << DropTable("transactions"),
       CreatePolicy("transactions", "Users can view their own transactions", "SELECT", "public", expr, P_NONE),
       CreatePolicy("transactions", "Users can create their own transactions", "INSERT", "public", P_NONE, expr),
       CreatePolicy("transactions", "Users can update their own transactions", "UPDATE", "public", expr, P_NONE),
       CreatePolicy("transactions", "Users can delete their own transactions", "DELETE", "public", expr, P_NONE) >>

Migration_part_001_rebuild == ProfilesCustomAuth \o TransactionsCustomAuth(P_IN_PROFILES_CNPJ)
Migration_20250807010354 == ProfilesCustomAuth
Migration_20250807010440 == TransactionsCustomAuth(P_IN_PROFILES)

Migration_20250807011713 ==
    << DropPolicy("transactions", "Users can view their own transactions"),
       DropPolicy("transactions", "Users can create their own transactions"),
       DropPolicy("transactions", "Users can update their own transactions"),
       DropPolicy("transactions", "Users can delete their own transactions"),
       CreatePolicy("transactions", "Allow select for authenticated users", "SELECT", "public", P_TRUE, P_NONE),
       CreatePolicy("transactions", "Allow insert for authenticated users", "INSERT", "public", P_NONE, P_TRUE),
       CreatePolicy("transactions", "Allow update for authenticated users", "UPDATE", "public", P_TRUE, P_NONE),
       CreatePolicy("transactions", "Allow delete for authenticated users", "DELETE", "public", P_TRUE, P_NONE) >>

\* The tightening that keeps "Allow select for authenticated users".
TightenTransactions_keeps_select ==
    << DropPolicy("transactions", "Allow delete for authenticated users"),
       DropPolicy("transactions", "Allow insert for authenticated users"),
       DropPolicy("transactions", "Allow update for authenticated users"),
       CreatePolicy("transactions", "Transactions: select own", "SELECT", "authenticated", P_OWN, P_NONE),
       CreatePolicy("transactions", "Transactions: insert own", "INSERT", "authenticated", P_NONE, P_OWN),
       CreatePolicy("transactions", "Transactions: update own", "UPDATE", "authenticated", P_OWN, P_NONE),
       CreatePolicy("transactions", "Transactions: delete own", "DELETE", "authenticated", P_OWN, P_NONE) >>

\* 4) Tighten RLS policies (drop permissive ones and add strict policies)
TightenProfiles ==
    << DropPolicy("profiles", "Allow user registration"),
       DropPolicy("profiles", "Users can update their own profile"),
       DropPolicy("profiles", "Users can view their own profile"),
       CreatePolicy("profiles", "Profiles: select own", "SELECT", "authenticated", P_OWN, P_NONE),
       CreatePolicy("profiles", "Profiles: update own", "UPDATE", "authenticated", P_OWN, P_NONE),
       CreatePolicy("profiles", "Profiles: insert own", "INSERT", "authenticated", P_NONE, P_OWN) >>

TightenTransactions ==
    << DropPolicy("transactions", "Allow delete for authenticated users"),
       DropPolicy("transactions", "Allow insert for authenticated users"),
       DropPolicy("transactions", "Allow select for authenticated users"),
       DropPolicy("transactions", "Allow update for authenticated users"),
       CreatePolicy("transactions", "Transactions: select own", "SELECT", "authenticated", P_OWN, P_NONE),
       CreatePolicy("transactions", "Transactions: insert own", "INSERT", "authenticated", P_NONE, P_OWN),
       CreatePolicy("transactions", "Transactions: update own", "UPDATE", "authenticated", P_OWN, P_NONE),
       CreatePolicy("transactions", "Transactions: delete own", "DELETE", "authenticated", P_OWN, P_NONE) >>

Migration_20250809032630 ==
    << CreatePolicy("patterns", "Users can view their own patterns", "SELECT", "public", P_OWN, P_NONE),
       CreatePolicy("patterns", "Users can create their own patterns", "INSERT", "public", P_NONE, P_OWN),
       CreatePolicy("patterns", "Users can update their own patterns", "UPDATE", "public", P_OWN, P_NONE),
       CreatePolicy("patterns", "Users can delete their own patterns", "DELETE", "public", P_OWN, P_NONE) >>

\* The policy statements in the order of the schema's history: the first
\* schema, the custom-auth rebuilds (they precede 20250807010952 and
\* 20250807011634, which repair them), the permissive policies, the
\* tightening (it needs the user_id column of 20250808163646), the patterns.
Migrations ==
    Migration_part_003 \o Migration_20250807005142 \o Migration_part_001_rebuild
      \o Migration_20250807010354 \o Migration_20250807010440
      \o Migration_20250807011713 \o TightenProfiles \o TightenTransactions
      \o Migration_20250809032630

PolicyOf(st) == [table |-> st.table, name |-> st.name, cmd |-> st.cmd, roles |-> st.roles,
                 using |-> st.using, check |-> st.check]

\* One policy statement applied to the policies in force
ApplyStatement(ps, st) ==
    IF st.kind = "create" THEN ps \cup {PolicyOf(st)}
    ELSE IF st.kind = "drop" THEN {q \in ps : ~(q.table = st.table /\ q.name = st.name)}
    ELSE {q \in ps : q.table # st.table}

RECURSIVE ApplyAll(_, _)
ApplyAll(ps, statements) ==
    IF statements = <<>> THEN ps
    ELSE ApplyAll(ApplyStatement(ps, Head(statements)), Tail(statements))

LatestPolicies == ApplyAll({}, Migrations)

\* The role of a request: authenticated with auth.uid() = caller, or anon
\* with auth.uid() NULL.
RoleOf(caller) == IF caller = NULL THEN "anon" ELSE "authenticated"

Applies(q, table, cmd, caller) ==
    /\ q.table = table
    /\ q.cmd \in {cmd, "ALL"}
    /\ q.roles \in {"public", RoleOf(caller)}

\* A policy expression without subquery, on a row; NULL = x is not true.
HoldsSimple(expr, caller, row) ==
    IF expr = P_TRUE THEN TRUE
    ELSE IF expr = P_OWN THEN IsTrue(SqlEq(caller, row.user_id))
    ELSE IF expr = P_OWN_ID THEN IsTrue(SqlEq(caller, row.id))
    ELSE FALSE

\* The profiles the caller's SELECT policies show: what a policy's subquery reads
VisibleProfiles(ps, caller, profs) ==
    {r \in profs : \E q \in ps : /\ Applies(q, "profiles", "SELECT", caller)
                                 /\ HoldsSimple(q.using, caller, r)}

Holds(expr, caller, row, ps, profs) ==
    IF expr \in {P_IN_PROFILES, P_IN_PROFILES_CNPJ}
    THEN \E r \in VisibleProfiles(ps, caller, profs) : IsTrue(SqlEq(row.user_id, r.id))
    ELSE HoldsSimple(expr, caller, row)

\* Some permissive policy of the command passes the existing row (USING)
Using(ps, table, cmd, caller, row, profs) ==
    \E q \in ps : Applies(q, table, cmd, caller) /\ Holds(q.using, caller, row, ps, profs)

\* Some permissive policy of the command passes the new row (WITH CHECK, or
\* USING when the policy states no WITH CHECK)
WithCheck(ps, table, cmd, caller, row, profs) ==
    \E q \in ps : /\ Applies(q, table, cmd, caller)
                  /\ Holds(IF q.check # P_NONE THEN q.check ELSE q.using, caller, row, ps, profs)

\* The table API (PostgREST): one request by a caller on one table
Tables == {"profiles", "transactions", "patterns"}

RowsOf(t) == IF t = "profiles" THEN profiles
             ELSE IF t = "transactions" THEN transactions ELSE patterns

SetRows(t, rows) ==
    /\ profiles' = IF t = "profiles" THEN rows ELSE profiles
    /\ transactions' = IF t = "transactions" THEN rows ELSE transactions
    /\ patterns' = IF t = "patterns" THEN rows ELSE patterns
    /\ UNCHANGED authUsers

\* Table constraints on the rows a request would leave
RowsValid(t, rows) ==
    IF t = "profiles"
    THEN ConstraintsHold([profiles |-> rows, authUsers |-> authUsers,
                          transactions |-> transactions])
    ELSE \A r \in rows : r.user_id # NULL

RLS_VIOLATION == "new row violates row-level security policy"

ApiResult(op, t, caller, rows, new, err) ==
    [op |-> op, table |-> t, caller |-> caller, rows |-> rows, new |-> new, err |-> err]

\* Ids a client may write as a row's owner: identities and profile ids
Owners == {u.id : u \in authUsers} \cup {r.id : r \in profiles}

\* Rows a client may send to insert
NewRows(t) ==
    IF t = "profiles"
    THEN {[id |-> i, cnpj |-> c, company_name |-> n, password_hash |-> NULL, user_id |-> o] :
            i \in FreshProfileIds, c \in Cnpjs, n \in Companies,
            o \in {u.id : u \in authUsers}}
    ELSE {[id |-> i, user_id |-> o] :
            i \in (1..MaxRows) \ {r.id : r \in transactions \cup patterns}, o \in Owners}

\* supabase.from(t).select('*')
ApiSelect(caller, t) ==
    /\ api' = ApiResult("select", t, caller,
                        {r \in RowsOf(t) : Using(policies, t, "SELECT", caller, r, profiles)},
                        {}, "")
    /\ UNCHANGED <<dbVars, policies, patterns, last, clientVars, raceVars, formVars>>

\* supabase.from(t).insert(row)
ApiInsert(caller, t, row) ==
    /\ IF ~WithCheck(policies, t, "INSERT", caller, row, profiles)
       THEN /\ api' = ApiResult("insert", t, caller, {}, {}, RLS_VIOLATION)
            /\ UNCHANGED <<dbVars, patterns>>
       ELSE IF ~RowsValid(t, RowsOf(t) \cup {row})
       THEN /\ api' = ApiResult("insert", t, caller, {}, {}, "constraint violation")
            /\ UNCHANGED <<dbVars, patterns>>
       ELSE /\ api' = ApiResult("insert", t, caller, {}, {row}, "")
            /\ SetRows(t, RowsOf(t) \cup {row})
    /\ UNCHANGED <<policies, last, clientVars, raceVars, formVars>>

\* supabase.from(t).update({ user_id: owner }).eq('id', id)
ApiUpdate(caller, t, id, owner) ==
    LET target == {r \in RowsOf(t) : /\ r.id = id
                                     /\ Using(policies, t, "SELECT", caller, r, profiles)
                                     /\ Using(policies, t, "UPDATE", caller, r, profiles)}
        image(r) == [r EXCEPT !.user_id = owner]
        after == (RowsOf(t) \ target) \cup {image(r) : r \in target}
    IN
    /\ IF \E r \in target : ~WithCheck(policies, t, "UPDATE", caller, image(r), profiles)
       THEN /\ api' = ApiResult("update", t, caller, {}, {}, RLS_VIOLATION)
            /\ UNCHANGED <<dbVars, patterns>>
       ELSE IF ~RowsValid(t, after)
       THEN /\ api' = ApiResult("update", t, caller, {}, {}, "constraint violation")
            /\ UNCHANGED <<dbVars, patterns>>
       ELSE /\ api' = ApiResult("update", t, caller, target, {image(r) : r \in target}, "")
            /\ SetRows(t, after)
    /\ UNCHANGED <<policies, last, clientVars, raceVars, formVars>>

\* supabase.from(t).delete().eq('id', id)
ApiDelete(caller, t, id) ==
    LET target == {r \in RowsOf(t) : /\ r.id = id
                                     /\ Using(policies, t, "SELECT", caller, r, profiles)
                                     /\ Using(policies, t, "DELETE", caller, r, profiles)}
    IN
    /\ api' = ApiResult("delete", t, caller, target, {}, "")
    /\ SetRows(t, RowsOf(t) \ target)
    /\ UNCHANGED <<policies, last, clientVars, raceVars, formVars>>

-----------------------------------------------------------------------------
(* Specification SpecRls: table-API requests of two identities and of the  *)
(* anon role, after all migrations.  The tables start with at most one row *)
(* each that identity 1 does not own: a transaction of a legacy profile or *)
(* of identity 2, a pattern of identity 2.                                  *)

Identity(n, c) == [id |-> <<"auth", n>>, email |-> cnpjToEmail(c), password |-> "senha1"]

\* The profile the trigger made for identity 1
TriggerProfile == [id |-> <<"profile", 1>>, cnpj |-> "11", company_name |-> "Acme",
                   password_hash |-> NULL, user_id |-> <<"auth", 1>>]

InitRls ==
    /\ authUsers = {Identity(1, "11"), Identity(2, "22")}
    /\ \E legacy \in SUBSET {LegacyProfile(<<"profile", 2>>, "22", "Acme", "senha1")} :
          profiles = {TriggerProfile} \cup legacy
    /\ \E o \in {<<"profile", 2>>, <<"auth", 2>>} :
          transactions \in SUBSET {[id |-> 0, user_id |-> o]}
    /\ patterns \in SUBSET {[id |-> 0, user_id |-> <<"auth", 2>>]}
    /\ policies = LatestPolicies
    /\ api = NoApi
    /\ last = NoCall
    /\ IdleClient /\ IdleRace /\ IdleForm

NextRls ==
    \/ \E caller \in Callers, t \in Tables : ApiSelect(caller, t)
    \/ \E caller \in Callers, t \in Tables : \E row \in NewRows(t) : ApiInsert(caller, t, row)
    \/ \E caller \in Callers, t \in Tables :
          \E id \in {r.id : r \in RowsOf(t)}, owner \in Owners : ApiUpdate(caller, t, id, owner)
    \/ \E caller \in Callers, t \in Tables :
          \E id \in {r.id : r \in RowsOf(t)} : ApiDelete(caller, t, id)

SpecRls == InitRls /\ [][NextRls]_vars

-----------------------------------------------------------------------------
(* Specification SpecCascade: SpecRls with the removal of identities.      *)

\* DELETE FROM auth.users WHERE id = ...: profiles_user_id_fkey is the only
\* foreign key to auth.users, and it is ON DELETE CASCADE.
\* transactions.user_id and patterns.user_id reference no table.
DeleteIdentity(id) ==
    /\ authUsers' = {u \in authUsers : u.id # id}
    /\ profiles' = {r \in profiles : r.user_id # id}
    /\ last' = Call("DELETE auth.users", "", "", id, RetVoid, "", TRUE)
    /\ UNCHANGED <<transactions, rlsVars, clientVars, raceVars, formVars>>

NextCascade ==
    \/ NextRls
    \/ \E id \in {u.id : u \in authUsers} : DeleteIdentity(id)

SpecCascade == InitRls /\ [][NextCascade]_vars

-----------------------------------------------------------------------------
(* Specification SpecSteps: authenticate_user and update_user_password as  *)
(* the two statements each of them runs under READ COMMITTED: the SELECT   *)
(* ... INTO prof, then the UPDATE ... WHERE id = prof.id on the row as it  *)
(* is by then.  `pending` keeps every call of the session: those between   *)
(* their two statements (done = FALSE) and those that returned.           *)

StepCall(conn, proc, uid, cnpj, password, new, salt, prof, done, ret) ==
    [conn |-> conn, proc |-> proc, uid |-> uid, cnpj |-> cnpj, password |-> password,
     new |-> new, salt |-> salt, prof |-> prof, done |-> done, ret |-> ret]

\* UPDATE profiles SET password_hash = hash, user_id = COALESCE(user_id, uid)
\* WHERE id = id, on the rows as they are now
UpdateHash(db, id, hash, uid) ==
    [db EXCEPT !.profiles =
        {IF r.id = id
         THEN [r EXCEPT !.password_hash = hash,
                        !.user_id = IF r.user_id # NULL THEN r.user_id ELSE uid]
         ELSE r : r \in db.profiles}]

\* authenticate_user up to its UPDATE
AuthenticateUserSelect(c, p, s) ==
    /\ Cardinality(pending) < MaxConn
    /\ LET found == ProfileByCnpj(Db, c)
           prof == CHOOSE r \in found : TRUE
           text == Salted(p, c)
           call(done, ret) ==
               StepCall(FreeConn, "authenticate_user", NULL, c, p, "", s,
                        IF found = {} THEN NULL ELSE prof, done, ret)
       IN
       pending' = pending \cup
         {IF found = {} THEN call(TRUE, RetRows(<<>>))
          ELSE IF IsTrue(LikeDollar(prof.password_hash))
          THEN IF IsTrue(SqlEq(crypt(text, prof.password_hash), prof.password_hash))
               THEN call(TRUE, RetRows(<<PublicRow(prof)>>))
               ELSE call(TRUE, RetRows(<<>>))
          ELSE IF IsTrue(SqlEq(md5(text), prof.password_hash))
               THEN call(FALSE, RetVoid)
               ELSE call(TRUE, RetRows(<<>>))}
    /\ last' = Call("authenticate_user:select", c, p, NULL, RetVoid, "", FALSE)
    /\ UNCHANGED <<dbVars, clientVars, rlsVars, formVars>>

\* The UPDATE of authenticate_user and its return
AuthenticateUserUpdate(call) ==
    /\ call.proc = "authenticate_user" /\ ~call.done
    /\ LET hash == crypt(Salted(call.password, call.cnpj), gen_salt(call.salt))
           r == Commit(Db, UpdateHash(Db, call.prof.id, hash, NULL),
                       RetRows(<<PublicRow(call.prof)>>))
       IN /\ SetDb(r.db)
          /\ pending' = (pending \ {call}) \cup {[call EXCEPT !.done = TRUE, !.ret = r.ret]}
          /\ last' = Call("authenticate_user", call.cnpj, call.password, NULL, r.ret, "",
                          r.db # Db)
    /\ UNCHANGED <<clientVars, rlsVars, formVars>>

\* update_user_password up to its UPDATE
UpdateUserPasswordSelect(uid, cur, new, c, s) ==
    /\ Cardinality(pending) < MaxConn
    /\ LET found == ProfileByCnpj(Db, c)
           prof == CHOOSE r \in found : TRUE
           text == Salted(cur, c)
           wrong ==
             IF IsTrue(LikeDollar(prof.password_hash))
             THEN IsTrue(SqlNe(crypt(text, prof.password_hash), prof.password_hash))
             ELSE IsTrue(SqlNe(md5(text), prof.password_hash))
           call(done, ret) ==
               StepCall(FreeConn, "update_user_password", uid, c, cur, new, s,
                        IF found = {} THEN NULL ELSE prof, done, ret)
       IN
       pending' = pending \cup
         {IF found = {} THEN call(TRUE, RetBool(SQL_FALSE))
          ELSE IF wrong THEN call(TRUE, RetBool(SQL_FALSE))
          ELSE call(FALSE, RetVoid)}
    /\ last' = Call("update_user_password:select", c, cur, uid, RetVoid, "", FALSE)
    /\ UNCHANGED <<dbVars, clientVars, rlsVars, formVars>>

\* The UPDATE of update_user_password and its return
UpdateUserPasswordUpdate(call) ==
    /\ call.proc = "update_user_password" /\ ~call.done
    /\ LET hash == crypt(Salted(call.new, call.cnpj), gen_salt(call.salt))
           r == Commit(Db, UpdateHash(Db, call.prof.id, hash, call.uid), RetBool(SQL_TRUE))
       IN /\ SetDb(r.db)
          /\ pending' = (pending \ {call}) \cup {[call EXCEPT !.done = TRUE, !.ret = r.ret]}
          /\ last' = Call("update_user_password", call.cnpj, call.password, call.uid, r.ret,
                          "", r.db # Db)
    /\ UNCHANGED <<clientVars, rlsVars, formVars>>

InitSteps == InitDb({LegacyDb({"11"}, pw) : pw \in [Cnpjs -> Passwords]})

NextSteps ==
    \/ \E c \in Cnpjs, p \in Passwords, s \in Salts : AuthenticateUserSelect(c, p, s)
    \/ \E call \in pending : AuthenticateUserUpdate(call)
    \/ \E uid \in {r.id : r \in profiles} \cup {NULL}, cur \in Passwords, new \in Passwords,
          c \in Registrable, s \in Salts :
          UpdateUserPasswordSelect(uid, cur, new, c, s)
    \/ \E call \in pending : UpdateUserPasswordUpdate(call)

SpecSteps == InitSteps /\ [][NextSteps]_vars

-----------------------------------------------------------------------------
(* Specification SpecAuth: the AuthProvider of the managed-auth revision   *)
(* in a browser: the page loads, initAuth runs, then signIn, signUp and    *)
(* signOut are called in any order.  Identity 1 exists, with the profile  *)
(* the trigger made for it or with none (it was created without metadata, *)
(* or before the profiles table was rebuilt); tax-ID "22" may have a       *)
(* legacy profile.                                                         *)

\* A localStorage text that JSON.parse rejects
CORRUPT == [text |-> "{"]

\* What localStorage['bpo_user'] may hold when the page loads
SavedUsers ==
    <<NULL, CORRUPT,
      [id |-> <<"auth", 1>>, cnpj |-> "11", company_name |-> "Acme"],
      [id |-> <<"profile", 2>>, cnpj |-> "22", company_name |-> "Acme"]>>

\* initAuth: restore the saved user, then verify with the session
initAuth(db, cl) ==
    LET restored == IF cl.bpo_user = NULL THEN cl
                    ELSE IF cl.bpo_user = CORRUPT THEN [cl EXCEPT !.bpo_user = NULL]
                    ELSE [cl EXCEPT !.user = cl.bpo_user]
    IN IF restored.session # NULL
       THEN loadUserProfile(db, restored, restored.session)
       ELSE restored

\* The effect of AuthProvider on mount
InitAuthEffect ==
    /\ authLoading
    /\ LET cl == initAuth(Db, Client) IN
          /\ session' = cl.session
          /\ user' = cl.user
          /\ bpo_user' = cl.bpo_user
    /\ authLoading' = FALSE          \* finally
    /\ last' = Call("initAuth", "", "", NULL, RetVoid, "", FALSE)
    /\ UNCHANGED <<dbVars, location, raceVars, rlsVars, formVars>>

\* The outcomes of supabase.auth.signOut({ scope: 'global' })
SignOutOutcomes == {"ok", "error", "throws"}

\* signOut that clears the user only after a sign-out that succeeded.
signOut_when_ok(cl, outcome, kept) ==
    IF outcome = "ok"
    THEN [client |-> [session |-> NULL, user |-> NULL, bpo_user |-> NULL], location |-> "/auth"]
    ELSE [client |-> cl, location |-> "/"]

\* signOut.  kept: a sign-out that did not succeed has left the session's
\* tokens in the browser.
signOut(cl, outcome, kept) ==
    LET s1 == IF outcome # "ok" /\ kept THEN cl.session ELSE NULL IN
    \* finally
    [client |-> [session |-> s1, user |-> NULL, bpo_user |-> NULL], location |-> "/auth"]

SignOut(outcome, kept) ==
    /\ ~authLoading
    /\ LET o == signOut(Client, outcome, kept) IN
          /\ session' = o.client.session
          /\ user' = o.client.user
          /\ bpo_user' = o.client.bpo_user
          /\ location' = o.location
    /\ last' = Call("signOut", "", "", IF user = NULL THEN NULL ELSE user.id,
                    IF outcome = "error" THEN RetError("sign-out failed") ELSE RetVoid,
                    outcome, FALSE)
    /\ UNCHANGED <<dbVars, authLoading, raceVars, rlsVars, formVars>>

\* A full page load (after window.location.href = ..., or a reload): the
\* AuthProvider mounts with its initial state.
PageLoad ==
    /\ ~authLoading
    /\ user' = NULL
    /\ authLoading' = TRUE
    /\ last' = Call("load", "", "", NULL, RetVoid, "", FALSE)
    /\ UNCHANGED <<dbVars, session, bpo_user, location, raceVars, rlsVars, formVars>>

InitAuth ==
    /\ authUsers = {Identity(1, "11")}
    /\ \E own \in SUBSET {TriggerProfile},
          legacy \in SUBSET {LegacyProfile(<<"profile", 2>>, "22", "Acme", "senha1")} :
          profiles = own \cup legacy
    /\ transactions = {}
    /\ session \in {u.id : u \in authUsers} \cup {NULL}
    /\ user = NULL
    /\ \E k \in DOMAIN SavedUsers : bpo_user = SavedUsers[k]
    /\ authLoading = TRUE
    /\ location = "/"
    /\ last = NoCall
    /\ IdleRace /\ IdleRls /\ IdleForm

NextAuth ==
    \/ InitAuthEffect
    \/ \E c \in Cnpjs, p \in Passwords, s \in Salts : ~authLoading /\ SignIn(c, p, s)
    \/ \E c \in Cnpjs, n \in Companies, p \in Passwords, available, confirm \in BOOLEAN :
          ~authLoading /\ SignUp(c, n, p, available, confirm)
    \/ \E outcome \in SignOutOutcomes, kept \in BOOLEAN : SignOut(outcome, kept)
    \/ PageLoad

SpecAuth == InitAuth /\ [][NextAuth]_vars

-----------------------------------------------------------------------------
(* FinancialDashboard: texts, numbers and dates of the transaction form.   *)
(* A text is a sequence of one-character strings; a JS number is a record  *)
(* that is NaN or holds a value.                                            *)

DigitValue == [c \in {"0", "1", "2", "3", "4", "5", "6", "7", "8", "9"} |->
                 CASE c = "0" -> 0 [] c = "1" -> 1 [] c = "2" -> 2 [] c = "3" -> 3
                   [] c = "4" -> 4 [] c = "5" -> 5 [] c = "6" -> 6 [] c = "7" -> 7
                   [] c = "8" -> 8 [] c = "9" -> 9]
IsDigit(c) == c \in DOMAIN DigitValue
DigitChar(n) == CHOOSE c \in DOMAIN DigitValue : DigitValue[c] = n

NaN == [nan |-> TRUE, val |-> 0]
JsNum(v) == [nan |-> FALSE, val |-> v]

\* The longest prefix of digits
RECURSIVE DigitsPrefix(_)
DigitsPrefix(t) ==
    IF t = <<>> \/ ~IsDigit(Head(t)) THEN <<>> ELSE <<Head(t)>> \o DigitsPrefix(Tail(t))

RECURSIVE ToNat(_, _)
ToNat(ds, acc) == IF ds = <<>> THEN acc ELSE ToNat(Tail(ds), 10 * acc + DigitValue[Head(ds)])

RECURSIVE NatToText(_)
NatToText(n) == IF n < 10 THEN <<DigitChar(n)>> ELSE NatToText(n \div 10) \o <<DigitChar(n % 10)>>

RECURSIVE SkipSpaces(_)
SkipSpaces(t) == IF t # <<>> /\ Head(t) = " " THEN SkipSpaces(Tail(t)) ELSE t

\* parseInt(text): leading whitespace, an optional sign, then decimal digits
\* up to the first other character; NaN when there is no digit.
parseInt(text) ==
    LET t == SkipSpaces(text)
        neg == t # <<>> /\ Head(t) = "-"
        body == IF t # <<>> /\ Head(t) \in {"-", "+"} THEN Tail(t) ELSE t
        ds == DigitsPrefix(body)
    IN IF ds = <<>> THEN NaN
       ELSE JsNum(IF neg THEN 0 - ToNat(ds, 0) ELSE ToNat(ds, 0))

\* a > b in JS: false when a is NaN
JsGt(a, b) == ~a.nan /\ a.val > b

RECURSIVE KeepChars(_, _)
KeepChars(t, keep) ==
    IF t = <<>> THEN <<>>
    ELSE (IF Head(t) \in keep THEN <<Head(t)>> ELSE <<>>) \o KeepChars(Tail(t), keep)

\* Thousands groups separated by '.', as Intl.NumberFormat('pt-BR') writes them
RECURSIVE Group3(_)
Group3(ds) ==
    IF Len(ds) <= 3 THEN ds
    ELSE Group3(SubSeq(ds, 1, Len(ds) - 3)) \o <<".">> \o SubSeq(ds, Len(ds) - 2, Len(ds))

\* formatCurrencyInput: the digits of the typed text read as cents
formatCurrencyInput(value) ==
    LET numbers == KeepChars(value, DOMAIN DigitValue) IN
    IF numbers = <<>> THEN <<>>
    ELSE LET cents == ToNat(numbers, 0) IN
         Group3(NatToText(cents \div 100))
           \o <<",", DigitChar((cents % 100) \div 10), DigitChar(cents % 10)>>

\* s.replace(',', '.'): the first comma only
RECURSIVE ReplaceFirstComma(_)
ReplaceFirstComma(t) ==
    IF t = <<>> THEN <<>>
    ELSE IF Head(t) = "," THEN <<".">> \o Tail(t)
    ELSE <<Head(t)>> \o ReplaceFirstComma(Tail(t))

\* parseFloat on a text of digits, '.' and ',': the number in hundredths
\* (the amounts of the form have two decimals), NaN without a digit.
parseFloat(t) ==
    LET int == DigitsPrefix(t)
        rest == SubSeq(t, Len(int) + 1, Len(t))
        frac == IF rest # <<>> /\ Head(rest) = "." THEN DigitsPrefix(Tail(rest)) ELSE <<>>
        two == SubSeq(frac \o <<"0", "0">>, 1, 2)
    IN IF int = <<>> /\ frac = <<>> THEN NaN
       ELSE JsNum(100 * ToNat(int, 0) + ToNat(two, 0))

\* parseCurrencyInput: strip all but digits and commas, comma to dot,
\* parseFloat, 0 for NaN.  The value is in hundredths.
parseCurrencyInput(value) ==
    LET cleanValue == ReplaceFirstComma(KeepChars(value, DOMAIN DigitValue \cup {","}))
        parsed == parseFloat(cleanValue)
    IN IF parsed.nan THEN 0 ELSE parsed.val

\* The value of <input type="number"> as the browser reads it: an optional
\* '-', digits, an optional fraction, an optional exponent.  The result is
\* mantissa * 10^scale, or not a number.
NumberInputValue(text) ==
    LET neg == text # <<>> /\ Head(text) = "-"
        t1 == IF neg THEN Tail(text) ELSE text
        int == DigitsPrefix(t1)
        t2 == SubSeq(t1, Len(int) + 1, Len(t1))
        hasFrac == t2 # <<>> /\ Head(t2) = "."
        frac == IF hasFrac THEN DigitsPrefix(Tail(t2)) ELSE <<>>
        t3 == IF hasFrac THEN SubSeq(t2, Len(frac) + 2, Len(t2)) ELSE t2
        hasExp == t3 # <<>> /\ Head(t3) \in {"e", "E"}
        t4 == IF hasExp THEN Tail(t3) ELSE t3
        expNeg == hasExp /\ t4 # <<>> /\ Head(t4) = "-"
        t5 == IF hasExp /\ t4 # <<>> /\ Head(t4) \in {"-", "+"} THEN Tail(t4) ELSE t4
        exp == IF hasExp THEN DigitsPrefix(t5) ELSE <<>>
        t6 == SubSeq(t5, Len(exp) + 1, Len(t5))
        ok == /\ int # <<>> /\ (hasFrac => frac # <<>>) /\ (hasExp => exp # <<>>)
              /\ t6 = <<>>
        e == IF expNeg THEN 0 - ToNat(exp, 0) ELSE ToNat(exp, 0)
    IN [ok |-> ok, neg |-> neg, mantissa |-> ToNat(int \o frac, 0), scale |-> e - Len(frac)]

Pow10(k) == CASE k = 0 -> 1 [] k = 1 -> 10 [] k = 2 -> 100 [] k = 3 -> 1000 [] OTHER -> 10000

\* min="2" max="36" (step 1): the value is an integer from 2 to 36
InstallmentsInputValid(text) ==
    LET v == NumberInputValue(text) IN
    /\ v.ok /\ ~v.neg /\ v.mantissa > 0
    /\ IF v.scale >= 0
       THEN v.scale <= 2 /\ v.mantissa * Pow10(v.scale) \in 2..36
       ELSE /\ 0 - v.scale <= 4
            /\ v.mantissa % Pow10(0 - v.scale) = 0
            /\ v.mantissa \div Pow10(0 - v.scale) \in 2..36

\* The browser's constraint validation, which precedes the submit event:
\* amount and due date are required; the installments field is rendered,
\* and checked, only for 'parcelado'.
FormValid(fd) ==
    /\ fd.amount # <<>>
    /\ fd.dueDate # NULL
    /\ fd.paymentMethod = "parcelado"
         => (fd.installments # <<>> /\ InstallmentsInputValid(fd.installments))

\* Calendar dates <<year, month, day>>
IsLeap(y) == (y % 4 = 0 /\ y % 100 # 0) \/ y % 400 = 0
DaysInMonth(y, m) ==
    IF m = 2 THEN (IF IsLeap(y) THEN 29 ELSE 28)
    ELSE IF m \in {4, 6, 9, 11} THEN 30 ELSE 31

NextMonth(y, m) == IF m = 12 THEN <<y + 1, 1>> ELSE <<y, m + 1>>

\* date.setMonth(date.getMonth() + i): the month moves, the day of month
\* stays, and a day the month does not have rolls over into the next month.
AddMonths(date, i) ==
    LET total == (date[2] - 1) + i
        y == date[1] + (total \div 12)
        m == (total % 12) + 1
        d == date[3]
    IN IF d <= DaysInMonth(y, m) THEN <<y, m, d>>
       ELSE LET n == NextMonth(y, m) IN <<n[1], n[2], d - DaysInMonth(y, m)>>

PrevDay(date) ==
    IF date[3] > 1 THEN <<date[1], date[2], date[3] - 1>>
    ELSE IF date[2] > 1 THEN <<date[1], date[2] - 1, DaysInMonth(date[1], date[2] - 1)>>
    ELSE <<date[1] - 1, 12, 31>>

\* new Date(s + 'T00:00:00') is local midnight; toISOString().split('T')[0]
\* is its UTC date: the day before when local time is ahead of UTC
\* (getTimezoneOffset() < 0).
ToISODate(date, timezoneOffset) == IF timezoneOffset < 0 THEN PrevDay(date) ELSE date

\* a <= b on 'YYYY-MM-DD' strings
DateLe(a, b) ==
    \/ a[1] < b[1]
    \/ a[1] = b[1] /\ a[2] < b[2]
    \/ a[1] = b[1] /\ a[2] = b[2] /\ a[3] <= b[3]

\* useState initial value of formData, and the value handleSubmit resets to
DefaultForm ==
    [type |-> "entrada", description |-> "", amount |-> <<>>, paymentMethod |-> "a_vista",
     installments |-> <<"2">>, dueDate |-> NULL, category |-> ""]

Toast(title, description) == [title |-> title, description |-> description]

TransactionRow(user_id, fd, amount, installments, current_installment, due_date) ==
    [user_id |-> user_id, type |-> fd.type, description |-> fd.description,
     amount |-> amount, payment_method |-> fd.paymentMethod,
     installments |-> installments, current_installment |-> current_installment,
     due_date |-> due_date, category |-> fd.category, status |-> "pendente"]

\* handleSubmit that numbers every installment 1.
BuildInsert_same_installment(u, fd, timezoneOffset) ==
    LET installmentCount ==
          IF fd.paymentMethod = "parcelado" THEN parseInt(fd.installments) ELSE JsNum(1)
        amount == parseCurrencyInput(fd.amount)
    IN
    IF JsGt(installmentCount, 1)
    THEN IF fd.dueDate = NULL
         THEN [threw |-> TRUE, many |-> TRUE, rows |-> <<>>]
         ELSE [threw |-> FALSE, many |-> TRUE,
               rows |-> [k \in 1..installmentCount.val |->
                           TransactionRow(u.id, fd, amount, installmentCount.val, 1,
                                          ToISODate(AddMonths(fd.dueDate, k - 1),
                                                    timezoneOffset))]]
    ELSE [threw |-> FALSE, many |-> FALSE,
          rows |-> <<TransactionRow(u.id, fd, amount, 1, 1, fd.dueDate)>>]

\* handleSubmit whose single insert carries the parsed count:
\* installments: installmentCount.
BuildInsert_count_as_typed(u, fd, timezoneOffset) ==
    LET installmentCount ==
          IF fd.paymentMethod = "parcelado" THEN parseInt(fd.installments) ELSE JsNum(1)
        amount == parseCurrencyInput(fd.amount)
    IN
    IF JsGt(installmentCount, 1)
    THEN IF fd.dueDate = NULL
         THEN [threw |-> TRUE, many |-> TRUE, rows |-> <<>>]
         ELSE [threw |-> FALSE, many |-> TRUE,
               rows |-> [k \in 1..installmentCount.val |->
                           TransactionRow(u.id, fd, amount, installmentCount.val, k,
                                          ToISODate(AddMonths(fd.dueDate, k - 1),
                                                    timezoneOffset))]]
    ELSE [threw |-> FALSE, many |-> FALSE,
          rows |-> <<TransactionRow(u.id, fd, amount, installmentCount.val, 1, fd.dueDate)>>]

\* handleSubmit, from the try block to the insert call: the rows it hands to
\* supabase.from('transactions').insert, as an array (many) or as one
\* object.  toISOString() throws a RangeError on the Invalid Date of an
\* empty due date.
BuildInsert(u, fd, timezoneOffset) ==
    LET installmentCount ==
          IF fd.paymentMethod = "parcelado" THEN parseInt(fd.installments) ELSE JsNum(1)
        amount == parseCurrencyInput(fd.amount)
    IN
    IF JsGt(installmentCount, 1)
    THEN IF fd.dueDate = NULL
         THEN [threw |-> TRUE, many |-> TRUE, rows |-> <<>>]
         ELSE [threw |-> FALSE, many |-> TRUE,
               rows |-> [k \in 1..installmentCount.val |->
                           \* loop index i = k - 1
                           TransactionRow(u.id, fd, amount, installmentCount.val, k,
                                          ToISODate(AddMonths(fd.dueDate, k - 1),
                                                    timezoneOffset))]]
    ELSE [threw |-> FALSE, many |-> FALSE,
          rows |-> <<TransactionRow(u.id, fd, amount, 1, 1, fd.dueDate)>>]

\* What the user may type or pick in each field
TypedAmounts == {<<>>, <<"1", "0", "5", "0">>, <<"1", "2", "3", "4", "5", "6">>}
TypedInstallments ==
    {<<>>, <<"0">>, <<"1">>, <<"2">>, <<"3">>, <<"1", "e", "1">>, <<"-", "1">>, <<"a">>,
     <<"4", "0">>}
PickedDates == {NULL, <<2025, 1, 31>>, <<2024, 12, 31>>}
FieldValues ==
    [type |-> {"entrada", "saida"},
     description |-> {"", "Venda"},
     amount |-> {formatCurrencyInput(t) : t \in TypedAmounts},
     paymentMethod |-> {"a_vista", "parcelado"},
     installments |-> TypedInstallments,
     dueDate |-> PickedDates,
     category |-> {"", "Vendas"}]

\* getTimezoneOffset() of the browser, in minutes: UTC-3, UTC, UTC+1
TimezoneOffsets == {180, 0, -60}

\* An onChange / onValueChange handler: setFormData({ ...formData, field: value })
SetField(field, value) ==
    /\ formData # <<>>
    /\ sent = <<>>
    /\ formData[field] # value
    /\ formData' = [formData EXCEPT ![field] = value]
    /\ UNCHANGED <<dbVars, clientVars, last, raceVars, rlsVars, loading, sent, toast, shown,
                   reloading, today, chart, analytics,
                   passwordSection>>

\* handleSubmit up to its await, on whatever the form holds.  The button is
\* disabled while loading.
HandleSubmit(timezoneOffset) ==
    /\ formData # <<>>
    /\ ~loading
    /\ Len(sent) < MaxSubmits
    /\ IF user = NULL
       THEN /\ toast' = Toast("Erro", "Usuário não autenticado")
            /\ UNCHANGED <<loading, sent>>
       ELSE LET b == BuildInsert(user, formData, timezoneOffset) IN
            IF b.threw
            THEN \* catch, finally
                 /\ toast' = Toast("Erro", "Erro ao salvar transação")
                 /\ UNCHANGED <<loading, sent>>
            ELSE /\ loading' = TRUE
                 /\ sent' = Append(sent, [rows |-> b.rows, many |-> b.many])
                 /\ UNCHANGED toast
    /\ UNCHANGED <<dbVars, clientVars, last, raceVars, rlsVars, formData, shown, reloading,
                   today, chart, analytics,
                   passwordSection>>

\* The submit event of the form: the browser validates the fields first and
\* calls handleSubmit when they are valid.
Submit(timezoneOffset) == FormValid(formData) /\ HandleSubmit(timezoneOffset)

\* The insert request at the server: every row must pass the INSERT policy
\* and the NOT NULL constraint of due_date; the rows are stored together or
\* not at all.
InsertRejected(request) ==
    \E k \in 1..Len(request.rows) :
       \/ ~WithCheck(policies, "transactions", "INSERT", session, request.rows[k], profiles)
       \/ request.rows[k].due_date = NULL

Stored(request, n) ==
    {[id |-> <<n, k>>] @@ request.rows[k] : k \in 1..Len(request.rows)}

\* The error of the insert request, "" when it has none.  fail: the request
\* fails for a reason of its own (network, server).
NOT_NULL_VIOLATION == "null value in column \"due_date\" violates not-null constraint"
InsertError(request, fail) ==
    IF fail THEN "Failed to fetch"
    ELSE IF \E k \in 1..Len(request.rows) :
               ~WithCheck(policies, "transactions", "INSERT", session, request.rows[k],
                          profiles)
    THEN RLS_VIOLATION
    ELSE IF InsertRejected(request) THEN NOT_NULL_VIOLATION
    ELSE ""

\* The response to the n-th insert request of the form
InsertResult(n, new, err) ==
    ApiResult("insert", "transactions", session, {}, new, err) @@ [request |-> n]

\* handleSubmit that sends a failed request once more.
InsertResponse_retries(fail) ==
    /\ loading
    /\ LET request == sent[Len(sent)]
           error == InsertError(request, fail)
       IN
       IF error # ""
       THEN /\ api' = InsertResult(Len(sent), {}, error)
            /\ IF Len(sent) < MaxSubmits
               THEN /\ sent' = Append(sent, request)
                    /\ UNCHANGED <<toast, loading>>
               ELSE /\ toast' = Toast("Erro", "Erro ao salvar transação")
                    /\ loading' = FALSE
                    /\ sent' = sent
            /\ UNCHANGED <<transactions, formData, reloading>>
       ELSE /\ api' = InsertResult(Len(sent), Stored(request, Len(sent)), "")
            /\ transactions' = transactions \cup Stored(request, Len(sent))
            /\ toast' = Toast("Sucesso!", <<"Transação cadastrada com sucesso">>)
            /\ formData' = DefaultForm
            /\ reloading' = TRUE
            /\ loading' = FALSE
            /\ sent' = sent
    /\ UNCHANGED <<profiles, authUsers, clientVars, last, raceVars, policies, patterns, shown,
                   today, chart, analytics,
                   passwordSection>>

\* handleSubmit after its await: `api` is the response of the insert request.
InsertResponse(fail) ==
    /\ loading
    /\ LET request == sent[Len(sent)]
           error == InsertError(request, fail)
       IN
       IF error # ""
       THEN /\ api' = InsertResult(Len(sent), {}, error)
            /\ toast' = Toast("Erro", IF request.many THEN "Erro ao salvar transações"
                                                    ELSE "Erro ao salvar transação")
            /\ UNCHANGED <<transactions, formData, reloading>>       \* return
       ELSE /\ api' = InsertResult(Len(sent), Stored(request, Len(sent)), "")
            /\ transactions' = transactions \cup Stored(request, Len(sent))
            /\ toast' = Toast("Sucesso!",
                              IF request.many
                              THEN NatToText(Len(request.rows))
                                     \o <<" parcelas cadastradas com sucesso">>
                              ELSE <<"Transação cadastrada com sucesso">>)
            /\ formData' = DefaultForm
            /\ reloading' = TRUE          \* loadTransactions(), not awaited
    /\ loading' = FALSE                   \* finally
    /\ UNCHANGED <<profiles, authUsers, clientVars, last, raceVars, policies, patterns, sent,
                   shown, today, chart, analytics,
                   passwordSection>>

\* loadTransactions that writes the computed status back to the table.
LoadTransactions_persists(now, fail) ==
    /\ reloading
    /\ reloading' = FALSE
    /\ IF fail
       THEN /\ toast' = Toast("Erro", "Erro ao carregar transações")
            /\ UNCHANGED <<shown, today, transactions>>
       ELSE /\ today' = now
            /\ shown' = {[r EXCEPT !.status = IF DateLe(r.due_date, today')
                                                  /\ r.status = "pendente"
                                               THEN "vencido" ELSE r.status] :
                           r \in {t \in transactions :
                                    /\ Using(policies, "transactions", "SELECT", session, t,
                                             profiles)
                                    /\ IsTrue(SqlEq(t.user_id, user.id))}}
            /\ transactions' = {t \in transactions : t.id \notin {r.id : r \in shown'}}
                                  \cup shown'
            /\ UNCHANGED toast
    /\ UNCHANGED <<profiles, authUsers, clientVars, last, raceVars, rlsVars, formData, loading,
                   sent, chart, analytics,
                   passwordSection>>

\* loadTransactions: the caller's rows through the table API, shown with
\* pending rows due on or before today's UTC date marked 'vencido'.  The
\* order of the list is not modelled.
LoadTransactions(now, fail) ==
    /\ reloading
    /\ reloading' = FALSE
    /\ IF fail
       THEN /\ toast' = Toast("Erro", "Erro ao carregar transações")
            /\ UNCHANGED <<shown, today>>
       ELSE /\ today' = now      \* new Date().toISOString().split('T')[0]
            /\ shown' = {[r EXCEPT !.status = IF DateLe(r.due_date, today')
                                                  /\ r.status = "pendente"
                                               THEN "vencido" ELSE r.status] :
                           r \in {t \in transactions :
                                    /\ Using(policies, "transactions", "SELECT", session, t,
                                             profiles)
                                    /\ IsTrue(SqlEq(t.user_id, user.id))}}
            /\ UNCHANGED toast
    /\ UNCHANGED <<dbVars, clientVars, last, raceVars, rlsVars, formData, loading, sent, chart, analytics,
                   passwordSection>>

-----------------------------------------------------------------------------
(* Specification SpecForm: the transaction form of a signed-in user.  The  *)
(* fields are filled in, then the form is submitted; a submission that     *)
(* fails may be repeated.                                                   *)

Todays == {<<2025, 1, 31>>, <<2025, 3, 1>>}

\* A transaction the user has paid
PaidRow ==
    [id |-> <<0, 1>>, user_id |-> <<"auth", 1>>, type |-> "saida", description |-> "Aluguel",
     amount |-> 100000, payment_method |-> "a_vista", installments |-> 1,
     current_installment |-> 1, due_date |-> <<2025, 1, 10>>, category |-> "Fixas",
     status |-> "pago"]

InitForm ==
    /\ authUsers = {Identity(1, "11")}
    /\ profiles = {TriggerProfile}
    /\ transactions = {PaidRow}
    /\ patterns = {}
    /\ policies = LatestPolicies
    /\ api = NoApi
    /\ session = <<"auth", 1>>
    /\ user = [id |-> <<"auth", 1>>, cnpj |-> "11", company_name |-> "Acme"]
    /\ bpo_user = user
    /\ authLoading = FALSE
    /\ location = "/"
    /\ last = NoCall
    /\ IdleRace
    /\ formData = DefaultForm
    /\ loading = FALSE
    /\ sent = <<>>
    /\ toast = NULL
    /\ shown = {}
    /\ today = NULL
    /\ chart = NULL /\ analytics = NULL /\ passwordSection = NULL
    /\ reloading = TRUE                   \* useEffect on mount

NextForm ==
    \/ \E field \in DOMAIN FieldValues : \E value \in FieldValues[field] : SetField(field, value)
    \/ \E timezoneOffset \in TimezoneOffsets : Submit(timezoneOffset)
    \/ \E fail \in BOOLEAN : InsertResponse(fail)
    \/ \E now \in Todays, fail \in BOOLEAN : LoadTransactions(now, fail)

SpecForm == InitForm /\ [][NextForm]_vars

-----------------------------------------------------------------------------
(* Specification SpecHandle: handleSubmit called on any form state, as     *)
(* when the fields' constraints are not enforced (noValidate, a script, a  *)
(* browser without constraint validation).                                 *)

NextHandle ==
    \/ \E field \in DOMAIN FieldValues : \E value \in FieldValues[field] : SetField(field, value)
    \/ \E timezoneOffset \in TimezoneOffsets : HandleSubmit(timezoneOffset)
    \/ \E fail \in BOOLEAN : InsertResponse(fail)
    \/ \E now \in Todays, fail \in BOOLEAN : LoadTransactions(now, fail)

SpecHandle == InitForm /\ [][NextHandle]_vars

-----------------------------------------------------------------------------
(* ChartAnalytics: the chart series computed from the transactions prop    *)
(* and the filter state.  An instant is a local calendar date with the     *)
(* milliseconds since local midnight; amounts are in hundredths.           *)

MaxChartTxns == 3     \* length of the transactions prop

Instant(date, ms) == [date |-> date, ms |-> ms]

\* a <= b on Date objects
InstantLe(a, b) == (a.date # b.date /\ DateLe(a.date, b.date)) \/ (a.date = b.date /\ a.ms <= b.ms)

\* start.setDate(start.getDate() - days): a day number below 1 counts back
\* from the end of the previous month
RECURSIVE MinusDays(_, _)
MinusDays(date, days) ==
    IF days < date[3] THEN <<date[1], date[2], date[3] - days>>
    ELSE MinusDays(PrevDay(<<date[1], date[2], 1>>), days - date[3])

\* getDateRange: the custom range when both dates are set, otherwise the
\* last 30/60/90/120 days up to now (90 when the period has no entry in map).
getDateRange(c, now) ==
    IF c.period = "custom" /\ c.customStartDate # NULL /\ c.customEndDate # NULL
    THEN [start |-> Instant(c.customStartDate, 0),            \* + 'T00:00:00'
          end |-> Instant(c.customEndDate, 86399000)]         \* + 'T23:59:59'
    ELSE LET days == CASE c.period = "30" -> 30 [] c.period = "60" -> 60
                       [] c.period = "120" -> 120 [] OTHER -> 90
         IN [start |-> Instant(MinusDays(now.date, days), now.ms), end |-> now]

\* getTxnDate: local midnight of the due date, or the creation instant
getTxnDate(t, dateField) ==
    IF dateField = "due_date"
    THEN IF t.due_date = NULL THEN NULL ELSE Instant(t.due_date, 0)
    ELSE LET raw == IF t.created_at # NULL THEN t.created_at ELSE t.creation_date
         IN raw

\* formatYMDLocal: the local calendar date of an instant
formatYMDLocal(date) == date.date

\* baseByType
baseByType(c) ==
    SelectSeq(c.transactions, LAMBDA t : c.typeFilter = "ambos" \/ t.type = c.typeFilter)

\* The three filters of chartData on baseByType
ChartFiltered(c, now) ==
    LET range == getDateRange(c, now) IN
    SelectSeq(baseByType(c),
              LAMBDA t :
                 /\ (c.categoryFilter = "todas" \/ t.category = c.categoryFilter)
                 /\ (c.descriptionFilter = "todas" \/ t.description = c.descriptionFilter)
                 /\ LET d == getTxnDate(t, c.dateField) IN
                    d # NULL /\ InstantLe(range.start, d) /\ InstantLe(d, range.end))

\* The loop over filtered: agg is the Map's values in insertion order
RECURSIVE ChartAggregate(_, _, _)
ChartAggregate(filtered, agg, dateField) ==
    IF filtered = <<>> THEN agg
    ELSE LET t == Head(filtered)
             key == IF dateField = "due_date" THEN t.due_date
                    ELSE formatYMDLocal(getTxnDate(t, dateField))
             has == \E i \in 1..Len(agg) : agg[i].date = key
             agg1 == IF has THEN agg
                     ELSE Append(agg, [date |-> key, entrada |-> 0, saida |-> 0])
             i == CHOOSE j \in 1..Len(agg1) : agg1[j].date = key
             agg2 == IF t.type = "entrada"
                     THEN [agg1 EXCEPT ![i].entrada = @ + t.amount]
                     ELSE [agg1 EXCEPT ![i].saida = @ + t.amount]
         IN ChartAggregate(Tail(filtered), agg2, dateField)

\* One item put into a sorted array, after the items that do not compare
\* greater (a.date.localeCompare(b.date) on 'YYYY-MM-DD' keys)
RECURSIVE InsertByDate(_, _)
InsertByDate(sorted, item) ==
    IF sorted = <<>> THEN <<item>>
    ELSE IF DateLe(Head(sorted).date, item.date)
         THEN <<Head(sorted)>> \o InsertByDate(Tail(sorted), item)
         ELSE <<item>> \o sorted

RECURSIVE SortFrom(_, _)
SortFrom(items, sorted) ==
    IF items = <<>> THEN sorted ELSE SortFrom(Tail(items), InsertByDate(sorted, Head(items)))

\* The series left in the Map's insertion order.
SortByDate_unsorted(items) == items

\* Array.from(agg.values()).sort((a, b) => a.date.localeCompare(b.date))
SortByDate(items) == SortFrom(items, <<>>)

chartData(c, now) == SortByDate(ChartAggregate(ChartFiltered(c, now), <<>>, c.dateField))

\* The options of the category and description selects
ChartCategories(c) == {baseByType(c)[i].category : i \in 1..Len(baseByType(c))}
ChartDescriptions(c) ==
    {baseByType(c)[i].description :
        i \in {j \in 1..Len(baseByType(c)) :
                 c.categoryFilter = "todas" \/ baseByType(c)[j].category = c.categoryFilter}}

\* The clock of the model: new Date()
ChartNow == Instant(<<2025, 3, 1>>, 43200000)

\* Transactions the prop may hold
ChartPool ==
    { [type |-> "entrada", description |-> "Venda", amount |-> 100000,
       due_date |-> <<2025, 1, 31>>, category |-> "Vendas",
       created_at |-> Instant(<<2025, 2, 28>>, 86399500), creation_date |-> NULL],
      [type |-> "saida", description |-> "Aluguel", amount |-> 40000,
       due_date |-> <<2025, 1, 31>>, category |-> "Fixas",
       created_at |-> Instant(<<2025, 1, 31>>, 0), creation_date |-> NULL],
      [type |-> "entrada", description |-> "Servico", amount |-> 25000,
       due_date |-> <<2025, 2, 28>>, category |-> "Vendas",
       created_at |-> Instant(<<2025, 2, 10>>, 1000), creation_date |-> NULL],
      [type |-> "saida", description |-> "Aluguel", amount |-> 30000,
       due_date |-> <<2025, 1, 30>>, category |-> "Fixas",
       created_at |-> NULL, creation_date |-> NULL] }

ChartLists == UNION {[1..n -> ChartPool] : n \in 0..MaxChartTxns}

\* useState initial values
ChartDefault(list) ==
    [transactions |-> list, period |-> "90", dateField |-> "due_date",
     typeFilter |-> "ambos", categoryFilter |-> "todas", descriptionFilter |-> "todas",
     customStartDate |-> NULL, customEndDate |-> NULL]

\* The component state after a render: the filters with the memoized series
Rendered(c) == [c EXCEPT !.data = chartData(c, ChartNow)]

ChartFrame ==
    UNCHANGED <<dbVars, clientVars, last, raceVars, rlsVars, formData, loading, sent, toast,
                shown, reloading, today, analytics, passwordSection>>

\* A filter's onValueChange / onChange, with the effects that reset the
\* dependent filters, then the render.
SetChartFilter(field, value) ==
    /\ chart # NULL
    /\ chart[field] # value
    /\ LET c1 == [chart EXCEPT ![field] = value]
           c2 == IF field = "typeFilter"
                 THEN [c1 EXCEPT !.categoryFilter = "todas", !.descriptionFilter = "todas"]
                 ELSE IF field = "categoryFilter"
                 THEN [c1 EXCEPT !.descriptionFilter = "todas"]
                 ELSE c1
       IN chart' = Rendered(c2)
    /\ ChartFrame

SetPeriod(value) == SetChartFilter("period", value)
SetDateField(value) == SetChartFilter("dateField", value)
SetTypeFilter(value) == SetChartFilter("typeFilter", value)
SetCategoryFilter(value) == value \in ChartCategories(chart) \cup {"todas"} /\ SetChartFilter("categoryFilter", value)
SetDescriptionFilter(value) == value \in ChartDescriptions(chart) \cup {"todas"} /\ SetChartFilter("descriptionFilter", value)
SetCustomStartDate(value) == SetChartFilter("customStartDate", value)
SetCustomEndDate(value) == SetChartFilter("customEndDate", value)

-----------------------------------------------------------------------------
(* Specification SpecChart: the chart of a list of transactions under the  *)
(* filters a user can set.                                                  *)

InitChart ==
    /\ profiles = {} /\ authUsers = {} /\ transactions = {}
    /\ last = NoCall
    /\ IdleClient /\ IdleRace /\ IdleRls
    /\ formData = <<>> /\ loading = FALSE /\ sent = <<>> /\ toast = NULL /\ shown = {}
    /\ reloading = FALSE /\ today = NULL /\ analytics = NULL /\ passwordSection = NULL
    /\ \E ts \in ChartLists : chart = Rendered(ChartDefault(ts) @@ [data |-> <<>>])

NextChart ==
    \/ \E value \in {"90", "custom"} : SetPeriod(value)
    \/ \E value \in {"due_date", "created_at"} : SetDateField(value)
    \/ \E value \in {"ambos", "entrada", "saida"} : SetTypeFilter(value)
    \/ \E value \in {"todas", "Vendas", "Fixas"} : SetCategoryFilter(value)
    \/ \E value \in {"todas", "Venda", "Aluguel", "Servico"} : SetDescriptionFilter(value)
    \/ \E value \in {NULL, <<2025, 1, 31>>} : SetCustomStartDate(value)
    \/ \E value \in {NULL, <<2025, 2, 28>>} : SetCustomEndDate(value)

SpecChart == InitChart /\ [][NextChart]_vars

-----------------------------------------------------------------------------
(* AnalyticsTab: the filters, the fetches they start and the series each   *)
(* response is aggregated into.  A Date is an Instant of UTC date and      *)
(* milliseconds; the browser's time zone is its getTimezoneOffset() before *)
(* and after one change of offset (equal for a zone without one).          *)

MaxFetches == 3       \* fetches one AnalyticsTab session starts

DayMs == 86400000

NextDay(date) ==
    IF date[3] < DaysInMonth(date[1], date[2]) THEN <<date[1], date[2], date[3] + 1>>
    ELSE IF date[2] < 12 THEN <<date[1], date[2] + 1, 1>>
    ELSE <<date[1] + 1, 1, 1>>

\* The date `days` days after (before, when negative) date: day of month
\* date[3] + days, normalised month by month as setDate does
RECURSIVE PlusDays(_, _)
PlusDays(date, days) ==
    LET dd == date[3] + days
        dim == DaysInMonth(date[1], date[2])
    IN IF dd >= 1 /\ dd <= dim THEN <<date[1], date[2], dd>>
       ELSE IF dd > dim THEN PlusDays(NextDay(<<date[1], date[2], dim>>), dd - dim - 1)
       ELSE PlusDays(PrevDay(<<date[1], date[2], 1>>), dd)

\* The instant ms milliseconds after d, for -DayMs < ms < DayMs
Shift(d, ms) ==
    LET t == d.ms + ms IN
    IF t < 0 THEN Instant(PrevDay(d.date), t + DayMs)
    ELSE IF t >= DayMs THEN Instant(NextDay(d.date), t - DayMs)
    ELSE Instant(d.date, t)

InstantLt(a, b) == InstantLe(a, b) /\ a # b

\* Time zones: getTimezoneOffset() in minutes before and from the instant
\* `at`.  America/Sao_Paulo, Europe/Berlin (summer time from
\* 2025-03-30T01:00Z).
TimeZone(before, after, at) == [before |-> before, after |-> after, at |-> at]
TimeZones ==
    {TimeZone(180, 180, Instant(<<2025, 3, 30>>, 3600000)),
     TimeZone(-60, -120, Instant(<<2025, 3, 30>>, 3600000))}

\* The local date and time of day of instant d, as an Instant
ToLocal(d, tz) ==
    Shift(d, -(IF InstantLt(d, tz.at) THEN tz.before ELSE tz.after) * 60000)

\* The instant that has the local date and time of day `local`
FromLocal(local, tz) ==
    LET u == Shift(local, tz.before * 60000) IN
    IF InstantLt(u, tz.at) THEN u ELSE Shift(local, tz.after * 60000)

\* addDays: nd.setDate(nd.getDate() + days) moves the local date and keeps
\* the local time of day
addDays(d, days, tz) ==
    LET local == ToLocal(d, tz) IN
    FromLocal(Instant(PlusDays(local.date, days), local.ms), tz)

\* formatDate: d.toISOString().slice(0, 10), the UTC date
formatDate(d) == d.date

\* new Date('YYYY-MM-DD'): UTC midnight; an empty string gives an invalid Date
NewDate(text) == IF text = NULL THEN NULL ELSE Instant(text, 0)

\* new Date(date).toLocaleDateString('pt-BR'): the local date
LocaleDate(text, tz) == ToLocal(NewDate(text), tz).date

\* for (let d = new Date(s); d <= e; d = addDays(d, 1)): the keys set, in
\* order; a comparison with an invalid Date is false
RECURSIVE LoopDays(_, _, _)
LoopDays(d, e, tz) ==
    IF d = NULL \/ e = NULL THEN <<>>
    ELSE IF ~InstantLe(d, e) THEN <<>>
    ELSE <<formatDate(d)>> \o LoopDays(addDays(d, 1, tz), e, tz)

\* The filter values a fetchData call closes over
Filters(a) ==
    [typeFilter |-> a.typeFilter, categoryFilter |-> a.categoryFilter,
     descriptionFilter |-> a.descriptionFilter, dateField |-> a.dateField,
     startDate |-> a.startDate, endDate |-> a.endDate]

\* The value of column dateField as the server compares it: a date is the
\* instant of its midnight
ColumnInstant(t, dateField) ==
    IF dateField = "due_date" THEN Instant(t.due_date, 0) ELSE t.creation_date

\* The rows the query of fetchData returns
AnalyticsQuery(f, u, rows) ==
    {t \in rows :
       /\ Using(policies, "transactions", "SELECT", session, t, profiles)
       /\ t.user_id = u.id
       /\ (f.typeFilter # "todos" => t.type = f.typeFilter)
       /\ (f.categoryFilter # "todos" => t.category = f.categoryFilter)
       /\ (f.descriptionFilter # "todos" => t.description = f.descriptionFilter)
       /\ (f.startDate # NULL =>
             /\ ColumnInstant(t, f.dateField) # NULL
             /\ InstantLe(Instant(f.startDate, 0), ColumnInstant(t, f.dateField)))
       /\ (f.endDate # NULL =>
             /\ ColumnInstant(t, f.dateField) # NULL
             /\ InstantLe(ColumnInstant(t, f.dateField), Instant(f.endDate, 0)))}

\* The Map key of a transaction
AnalyticsKey(t, dateField) ==
    IF dateField = "due_date" THEN t.due_date
    ELSE formatDate(IF t.creation_date # NULL THEN t.creation_date ELSE t.created_at)

RECURSIVE SumOf(_, _)
SumOf(txs, type) ==
    IF txs = {} THEN 0
    ELSE LET t == CHOOSE x \in txs : TRUE IN
         (IF t.type = type THEN t.amount ELSE 0) + SumOf(txs \ {t}, type)

\* Array.from(map.entries()).sort((a, b) => (a[0] < b[0] ? -1 : 1)): the
\* keys of the Map (each once) in ascending order
RECURSIVE SortKeys(_)
SortKeys(keys) ==
    IF keys = {} THEN <<>>
    ELSE LET k == CHOOSE x \in keys : \A y \in keys : DateLe(x, y) IN
         <<k>> \o SortKeys(keys \ {k})

\* The series fetchData aggregates from the rows txs
AnalyticsSeries(f, txs, tz) ==
    LET days == LoopDays(NewDate(f.startDate), NewDate(f.endDate), tz)
        keys == {days[i] : i \in DOMAIN days} \cup {AnalyticsKey(t, f.dateField) : t \in txs}
        sorted == SortKeys(keys)
    IN [i \in DOMAIN sorted |->
          LET bucket == {t \in txs : AnalyticsKey(t, f.dateField) = sorted[i]} IN
          [date |-> sorted[i], label |-> LocaleDate(sorted[i], tz),
           entrada |-> SumOf(bucket, "entrada"), saida |-> SumOf(bucket, "saida")]]

\* The sum of field `field` of the points of a series
RECURSIVE SumOver(_, _)
SumOver(data, field) ==
    IF data = <<>> THEN 0 ELSE data[1][field] + SumOver(Tail(data), field)

AnalyticsTotals(txs) == [entrada |-> SumOf(txs, "entrada"), saida |-> SumOf(txs, "saida")]

\* new Date() when the tab is used
AnalyticsNow == Instant(<<2025, 3, 31>>, 43200000)

AnalyticsFrame ==
    UNCHANGED <<dbVars, clientVars, last, raceVars, policies, patterns, formData, loading, sent,
                toast, shown, reloading, today, chart, passwordSection>>

\* The fetchData effect: setLoading(true) and the query, with the filters of
\* this render
StartFetch(a) ==
    IF user = NULL THEN a
    ELSE [a EXCEPT !.loading = TRUE, !.started = @ + 1,
                   !.fetches = @ \cup {[id |-> a.started + 1, f |-> Filters(a)]}]

\* The applyRange effect: the two due_date queries, once, under the default
\* filters
StartRange(a) ==
    IF user = NULL \/ a.autoRangeApplied THEN a
    ELSE IF ~(a.typeFilter = "todos" /\ a.categoryFilter = "todos"
              /\ a.descriptionFilter = "todos") THEN a
    ELSE [a EXCEPT !.ranging = @ + 1]

\* The effects of a render in which startDate, endDate or dateField changed
DatesChanged(a, b) ==
    IF Filters(a) # Filters(b) THEN StartFetch(b) ELSE b

\* The effects of the renders after typeFilter, categoryFilter or
\* descriptionFilter changed: applyRange, fetchData and, for typeFilter, the
\* effect that resets the other two, whose change is rendered in turn
FiltersChanged(field, b) ==
    LET b1 == StartFetch(StartRange(b))
        b2 == [b1 EXCEPT !.categoryFilter = "todos", !.descriptionFilter = "todos"]
    IN IF field # "typeFilter" \/ b2 = b1 THEN b1 ELSE StartFetch(StartRange(b2))

\* The state AnalyticsTab mounts in, after its effects have run
AnalyticsMount(tz) ==
    StartFetch(StartRange(
        [typeFilter |-> "todos", categoryFilter |-> "todos", descriptionFilter |-> "todos",
         dateField |-> "due_date", preset |-> "30",
         startDate |-> formatDate(addDays(AnalyticsNow, -29, tz)),
         endDate |-> formatDate(AnalyticsNow),
         data |-> <<>>, totals |-> [entrada |-> 0, saida |-> 0], loading |-> FALSE,
         autoRangeApplied |-> FALSE, ranging |-> 0, fetches |-> {}, started |-> 0,
         tz |-> tz]))

\* A change of analytics that starts no more than MaxFetches fetches
AnalyticsTo(b) ==
    /\ b # analytics
    /\ b.started <= MaxFetches
    /\ analytics' = b
    /\ UNCHANGED api
    /\ AnalyticsFrame

SetAnalyticsFilter(field, value) ==
    /\ analytics # NULL
    /\ analytics[field] # value
    /\ AnalyticsTo(FiltersChanged(field, [analytics EXCEPT ![field] = value]))

SetAnalyticsDateField(value) ==
    /\ analytics # NULL
    /\ AnalyticsTo(DatesChanged(analytics, [analytics EXCEPT !.dateField = value]))

\* The date inputs' onChange
SetStartDate(value) ==
    /\ analytics # NULL
    /\ AnalyticsTo(DatesChanged(analytics,
                                [analytics EXCEPT !.preset = "custom", !.startDate = value]))

SetEndDate(value) ==
    /\ analytics # NULL
    /\ AnalyticsTo(DatesChanged(analytics,
                                [analytics EXCEPT !.preset = "custom", !.endDate = value]))

applyPreset(days) ==
    /\ analytics # NULL
    /\ AnalyticsTo(DatesChanged(analytics,
          [analytics EXCEPT !.preset = ToString(days),
                            !.endDate = formatDate(AnalyticsNow),
                            !.startDate = formatDate(addDays(AnalyticsNow, -(days - 1),
                                                             analytics.tz))]))

\* The rows a query of applyRange sees
RangeRows ==
    {t \in transactions :
       /\ Using(policies, "transactions", "SELECT", session, t, profiles)
       /\ t.user_id = user.id}

\* The two answers of applyRange arrive
ApplyRangeResponse(fail) ==
    /\ analytics # NULL
    /\ analytics.ranging > 0
    /\ LET a1 == [analytics EXCEPT !.ranging = @ - 1, !.autoRangeApplied = TRUE]
           due == {t.due_date : t \in RangeRows}
           a2 == IF fail \/ due = {} THEN a1
                 ELSE [a1 EXCEPT !.preset = "custom",
                                 !.startDate = CHOOSE d \in due : \A e \in due : DateLe(d, e),
                                 !.endDate = CHOOSE d \in due : \A e \in due : DateLe(e, d)]
           a3 == DatesChanged(analytics, a2)
       IN /\ a3.started <= MaxFetches
          /\ analytics' = a3
    /\ UNCHANGED api
    /\ AnalyticsFrame

\* The answer to the query of one fetchData call arrives
FetchResponse(id, fail) ==
    /\ analytics # NULL
    /\ \E fetch \in analytics.fetches :
         /\ fetch.id = id
         /\ LET txs == AnalyticsQuery(fetch.f, user, transactions)
                a1 == [analytics EXCEPT !.fetches = @ \ {fetch}, !.loading = FALSE]
            IN IF fail
               THEN /\ analytics' = a1
                    /\ api' = ApiResult("select", "transactions", session, {}, {}, "error")
                                @@ [request |-> id]
               ELSE /\ analytics' = [a1 EXCEPT !.data = AnalyticsSeries(fetch.f, txs, analytics.tz),
                                               !.totals = AnalyticsTotals(txs)]
                    /\ api' = ApiResult("select", "transactions", session, txs, {}, "")
                                @@ [request |-> id]
    /\ AnalyticsFrame

-----------------------------------------------------------------------------
(* Specification SpecAnalytics: AnalyticsTab of a signed-in user over a    *)
(* table of transactions, in one of the browser's time zones.              *)

AnalyticsRow(n, type, description, category, amount, due_date, creation_date, created_at) ==
    [id |-> <<0, n>>, user_id |-> <<"auth", 1>>, type |-> type, description |-> description,
     amount |-> amount, payment_method |-> "a_vista", installments |-> 1,
     current_installment |-> 1, due_date |-> due_date, category |-> category,
     status |-> "pendente", creation_date |-> creation_date, created_at |-> created_at]

AnalyticsRows ==
    {AnalyticsRow(1, "entrada", "Venda", "Vendas", 100, <<2025, 3, 29>>,
                  Instant(<<2025, 3, 30>>, 0), Instant(<<2025, 3, 28>>, 1000)),
     AnalyticsRow(2, "saida", "Aluguel", "Fixas", 40, <<2025, 3, 31>>,
                  Instant(<<2025, 3, 30>>, 43200000), Instant(<<2025, 3, 30>>, 43200000))}

InitAnalytics ==
    /\ authUsers = {Identity(1, "11")}
    /\ profiles = {TriggerProfile}
    /\ transactions \in {{}, AnalyticsRows}
    /\ patterns = {}
    /\ policies = LatestPolicies
    /\ api = NoApi
    /\ session = <<"auth", 1>>
    /\ user = [id |-> <<"auth", 1>>, cnpj |-> "11", company_name |-> "Acme"]
    /\ bpo_user = user
    /\ authLoading = FALSE
    /\ location = "/"
    /\ last = NoCall
    /\ IdleRace
    /\ formData = <<>> /\ loading = FALSE /\ sent = <<>> /\ toast = NULL /\ shown = {}
    /\ reloading = FALSE /\ today = NULL /\ chart = NULL /\ passwordSection = NULL
    /\ \E tz \in TimeZones : analytics = AnalyticsMount(tz)

NextAnalytics ==
    \/ \E value \in {"todos", "entrada", "saida"} : SetAnalyticsFilter("typeFilter", value)
    \/ \E value \in {"todos", "Vendas"} : SetAnalyticsFilter("categoryFilter", value)
    \/ \E value \in {"todos", "Venda"} : SetAnalyticsFilter("descriptionFilter", value)
    \/ \E value \in {"due_date", "creation_date"} : SetAnalyticsDateField(value)
    \/ \E value \in {<<2025, 3, 29>>, <<2025, 3, 30>>} : SetStartDate(value)
    \/ \E value \in {<<2025, 3, 30>>, <<2025, 3, 31>>} : SetEndDate(value)
    \/ \E days \in {30} : applyPreset(days)
    \/ \E fail \in BOOLEAN : ApplyRangeResponse(fail)
    \/ \E id \in 1..MaxFetches, fail \in BOOLEAN : FetchResponse(id, fail)

SpecAnalytics == InitAnalytics /\ [][NextAnalytics]_vars

-----------------------------------------------------------------------------
(* PasswordSection with its ConfirmPasswordDialog.  A remote procedure     *)
(* call is a request the server runs at one moment and whose answer the    *)
(* component handles at a later one.                                        *)

Rpc(rpc, password, new) ==
    [rpc |-> rpc, password |-> password, new |-> new, served |-> FALSE, ret |-> RetVoid]

PasswordFrame ==
    UNCHANGED <<clientVars, raceVars, rlsVars, formData, loading, sent, shown, reloading,
                today, chart, analytics>>

EmptyPasswordForm == [currentPassword |-> "", newPassword |-> "", confirmPassword |-> ""]

\* The state PasswordSection and the dialog mount in.  actualPassword is ""
\* for null: the component only tests it for truth, and no password shown is
\* empty
PasswordMount ==
    [showPassword |-> FALSE, actualPassword |-> "", showConfirmDialog |-> FALSE,
     isChangingPassword |-> FALSE, passwordForm |-> EmptyPasswordForm, loading |-> FALSE,
     dialog |-> [password |-> "", loading |-> FALSE],
     confirming |-> NULL, changing |-> NULL]

\* The value of the disabled "Senha Atual" input when it is rendered as
\* text, "" when it shows the mask or is not rendered
Plaintext(ps) ==
    IF ~ps.isChangingPassword /\ ps.showPassword /\ ps.actualPassword # ""
    THEN ps.actualPassword ELSE ""

\* A step of the component alone
PasswordTo(ps, t) ==
    /\ passwordSection' = ps
    /\ toast' = t
    /\ UNCHANGED <<dbVars, last>>
    /\ PasswordFrame

\* The eye icon's onClick; the icon is rendered outside the change form and
\* lies under the dialog when that is open
handleShowPassword ==
    /\ passwordSection # NULL
    /\ ~passwordSection.isChangingPassword
    /\ ~passwordSection.showConfirmDialog
    /\ LET ps == passwordSection IN
       IF ~ps.showPassword /\ ps.actualPassword = ""
       THEN PasswordTo([ps EXCEPT !.showConfirmDialog = TRUE], toast)
       ELSE PasswordTo([ps EXCEPT !.showPassword = ~ps.showPassword,
                                  !.actualPassword = IF ~ps.showPassword THEN "" ELSE @],
                       toast)

\* ConfirmPasswordDialog.handleSubmit up to the first await of
\* handleConfirmPassword, with the password typed into the dialog
DialogSubmit(password) ==
    /\ passwordSection # NULL
    /\ passwordSection.showConfirmDialog
    /\ ~passwordSection.dialog.loading
    /\ password # ""
    /\ PasswordTo([passwordSection EXCEPT
                     !.dialog = [password |-> password, loading |-> TRUE],
                     !.confirming = Rpc("verify_user_password", password, "")],
                  toast)

\* ConfirmPasswordDialog.handleClose: the Dialog's onOpenChange (Escape, a
\* click outside, the close button), whether or not a confirmation is
\* being awaited
DialogClose ==
    /\ passwordSection # NULL
    /\ passwordSection.showConfirmDialog
    /\ PasswordTo([passwordSection EXCEPT !.dialog.password = "",
                                          !.showConfirmDialog = FALSE],
                  toast)

\* The server runs the request of handleConfirmPassword, or the request
\* fails
ServeConfirm(fail, salt) ==
    /\ passwordSection # NULL
    /\ passwordSection.confirming # NULL
    /\ ~passwordSection.confirming.served
    /\ LET q == passwordSection.confirming
           r == IF fail THEN Return(Db, RetError("error"))
                ELSE IF q.rpc = "verify_user_password"
                THEN verify_user_password(Db, user.id, q.password, user.cnpj)
                ELSE authenticate_user(Db, user.cnpj, q.password, salt)
       IN /\ SetDb(r.db)
          /\ last' = Call(q.rpc, user.cnpj, q.password, user.id, r.ret, "", r.db # Db)
          /\ passwordSection' = [passwordSection EXCEPT !.confirming.served = TRUE,
                                                        !.confirming.ret = r.ret]
    /\ UNCHANGED toast
    /\ PasswordFrame

\* handleConfirmPassword after the answers, then the rest of
\* ConfirmPasswordDialog.handleSubmit: setPassword(''), onOpenChange(false)
\* and setLoading(false)
Confirmed(ps, valid, rpcError) ==
    LET closed == [ps EXCEPT !.confirming = NULL, !.showConfirmDialog = FALSE,
                             !.dialog = [password |-> "", loading |-> FALSE]]
    IN IF rpcError # ""
       THEN PasswordTo(closed, Toast("Erro", "Erro ao verificar senha. Tente novamente."))
       ELSE IF ~valid
       THEN PasswordTo(closed, Toast("Senha Incorreta", "A senha digitada está incorreta."))
       ELSE PasswordTo([closed EXCEPT !.actualPassword = ps.confirming.password,
                                      !.showPassword = TRUE],
                       Toast("Senha Verificada", "Senha exibida com segurança."))

\* An answer reaches handleConfirmPassword
ConfirmResponse ==
    /\ passwordSection # NULL
    /\ passwordSection.confirming # NULL
    /\ passwordSection.confirming.served
    /\ LET q == passwordSection.confirming IN
       IF q.rpc = "verify_user_password"
       THEN LET valid == q.ret.bool = SQL_TRUE
                rpcError == q.ret.err
            IN IF (~valid /\ rpcError = "") \/ rpcError # ""
               THEN PasswordTo([passwordSection EXCEPT
                                  !.confirming = Rpc("authenticate_user", q.password, "")],
                               toast)
               ELSE Confirmed(passwordSection, valid, rpcError)
       ELSE Confirmed(passwordSection, Len(q.ret.rows) > 0, q.ret.err)

\* "Alterar Senha"
OpenPasswordForm ==
    /\ passwordSection # NULL
    /\ ~passwordSection.isChangingPassword
    /\ ~passwordSection.showConfirmDialog
    /\ PasswordTo([passwordSection EXCEPT !.isChangingPassword = TRUE], toast)

\* "Cancelar" of the change form, disabled while loading
CancelPasswordForm ==
    /\ passwordSection # NULL
    /\ passwordSection.isChangingPassword
    /\ ~passwordSection.showConfirmDialog
    /\ ~passwordSection.loading
    /\ PasswordTo([passwordSection EXCEPT !.isChangingPassword = FALSE,
                                          !.passwordForm = EmptyPasswordForm],
                  toast)

\* handlePasswordChange up to its await, on the form as filled in; the
\* submit button is disabled while loading
handlePasswordChange(form) ==
    /\ passwordSection # NULL
    /\ passwordSection.isChangingPassword
    /\ ~passwordSection.showConfirmDialog
    /\ ~passwordSection.loading
    /\ LET ps == [passwordSection EXCEPT !.passwordForm = form] IN
       IF form.newPassword # form.confirmPassword
       THEN PasswordTo(ps, Toast("Erro", "As senhas não coincidem."))
       ELSE IF Len(form.newPassword) < 6
       THEN PasswordTo(ps, Toast("Erro", "A nova senha deve ter pelo menos 6 caracteres."))
       ELSE PasswordTo([ps EXCEPT !.loading = TRUE,
                                  !.changing = Rpc("update_user_password",
                                                   form.currentPassword, form.newPassword)],
                       toast)

\* The server runs update_user_password, or the request fails
ServeChange(fail, salt) ==
    /\ passwordSection # NULL
    /\ passwordSection.changing # NULL
    /\ ~passwordSection.changing.served
    /\ LET q == passwordSection.changing
           r == IF fail THEN Return(Db, RetError("error"))
                ELSE update_user_password(Db, user.id, q.password, q.new, user.cnpj, salt)
       IN /\ SetDb(r.db)
          /\ last' = Call(q.rpc, user.cnpj, q.password, user.id, r.ret, "", r.db # Db)
          /\ passwordSection' = [passwordSection EXCEPT !.changing.served = TRUE,
                                                        !.changing.ret = r.ret]
    /\ UNCHANGED toast
    /\ PasswordFrame

\* The answer reaches handlePasswordChange
ChangeResponse ==
    /\ passwordSection # NULL
    /\ passwordSection.changing # NULL
    /\ passwordSection.changing.served
    /\ LET q == passwordSection.changing
           done == [passwordSection EXCEPT !.changing = NULL, !.loading = FALSE]
       IN IF q.ret.err # ""
          THEN PasswordTo(done, Toast("Erro", "Erro técnico ao alterar senha. Tente novamente."))
          ELSE IF q.ret.bool # SQL_TRUE
          THEN PasswordTo(done, Toast("Senha Incorreta", "A senha atual está incorreta."))
          ELSE PasswordTo([done EXCEPT !.passwordForm = EmptyPasswordForm,
                                       !.isChangingPassword = FALSE,
                                       !.actualPassword = "",
                                       !.showPassword = FALSE],
                          Toast("Sucesso", "Senha alterada com sucesso!"))

-----------------------------------------------------------------------------
(* Specification SpecPassword: PasswordSection of a signed-in user whose   *)
(* profile holds a legacy or an upgraded hash of "senha1".                 *)

PasswordForms ==
    {[currentPassword |-> cur, newPassword |-> new, confirmPassword |-> conf] :
       cur \in Passwords, new \in {"senha2", "abc"}, conf \in {"senha2", "abc"}}

InitPassword ==
    /\ authUsers = {Identity(1, "11")}
    /\ \E hash \in {md5(Salted("senha1", "11")), crypt(Salted("senha1", "11"), gen_salt(1))} :
         profiles = {[TriggerProfile EXCEPT !.password_hash = hash]}
    /\ transactions = {}
    /\ IdleRls
    /\ session = <<"auth", 1>>
    /\ user = [id |-> <<"auth", 1>>, cnpj |-> "11", company_name |-> "Acme"]
    /\ bpo_user = user
    /\ authLoading = FALSE
    /\ location = "/profile"
    /\ last = NoCall
    /\ IdleRace
    /\ formData = <<>> /\ loading = FALSE /\ sent = <<>> /\ toast = NULL /\ shown = {}
    /\ reloading = FALSE /\ today = NULL /\ chart = NULL /\ analytics = NULL
    /\ passwordSection = PasswordMount

NextPassword ==
    \/ handleShowPassword
    \/ \E password \in Passwords : DialogSubmit(password)
    \/ DialogClose
    \/ \E fail \in BOOLEAN, salt \in Salts : ServeConfirm(fail, salt)
    \/ ConfirmResponse
    \/ OpenPasswordForm
    \/ CancelPasswordForm
    \/ \E form \in PasswordForms : handlePasswordChange(form)
    \/ \E fail \in BOOLEAN, salt \in Salts : ServeChange(fail, salt)
    \/ ChangeResponse

SpecPassword == InitPassword /\ [][NextPassword]_vars

-----------------------------------------------------------------------------
(* Claims *)

\* C1: a register_user call, direct or through signUp, for a tax-ID that
\* already has a profile raises 'CNPJ já cadastrado' (signUp returns that
\* text) and leaves the profiles as they were.
C1_DuplicateRejected ==
    [][ (last'.op \in {"register_user", "signUp"}
           /\ \E r \in profiles : r.cnpj = last'.cnpj)
        => /\ last'.ret.err = CNPJ_JA_CADASTRADO
           /\ last'.op = "signUp" => last'.error = CNPJ_JA_CADASTRADO
           /\ profiles' = profiles ]_vars

\* A second signUp for a registered tax-ID has been rejected.
C1_Witness ==
    /\ last.op = "signUp"
    /\ last.error = CNPJ_JA_CADASTRADO
    /\ \E r \in profiles : r.cnpj = last.cnpj /\ r.password_hash # NULL
                              /\ IsTrue(LikeDollar(r.password_hash))

\* C2: in every reachable state no two profiles share a tax-ID and no two
\* profiles share a non-null user_id, and a call that raises leaves the three
\* tables as they were.
C2_UniqueProfiles ==
    /\ [](\A a, b \in profiles :
            a # b => /\ a.cnpj # b.cnpj
                     /\ a.user_id # NULL => a.user_id # b.user_id)
    /\ [][ last'.ret.err # "" => UNCHANGED dbVars ]_vars

\* Two linked profiles exist, and a call has just been refused by a
\* constraint.
C2_Witness ==
    /\ Cardinality({r \in profiles : r.user_id # NULL}) = 2
    /\ last.ret.err = "constraint violation"

\* The profile of a tax-ID in a set of profiles.
ProfileOf(ps, c) == CHOOSE r \in ps : r.cnpj = c

\* A stored hash is a legacy hash of password p: MD5 over p, tax-ID, 'bpo_salt'.
IsLegacyHashOf(r, p) == r.password_hash = <<"hex", p \o r.cnpj \o "bpo_salt">>
IsLegacy(r) == \E p \in Passwords : IsLegacyHashOf(r, p)
IsStrong(r) == r.password_hash # NULL /\ r.password_hash[1] = "$"

\* C3: authenticate_user on a profile holding a legacy hash: with the right
\* password it returns exactly the profile's (id, tax-ID, company name) and
\* the stored hash becomes a strong one; with a wrong password it returns no
\* row and the profiles stay as they were.
C3_LegacyLogin ==
    [][ (last'.op = "authenticate_user"
           /\ \E r \in profiles : r.cnpj = last'.cnpj /\ IsLegacy(r))
        => LET r == ProfileOf(profiles, last'.cnpj)
               after == ProfileOf(profiles', last'.cnpj)
           IN IF IsLegacyHashOf(r, last'.password)
              THEN /\ last'.ret.err = ""
                   /\ last'.ret.rows = <<[profile_id |-> r.id, profile_cnpj |-> r.cnpj,
                                          profile_company_name |-> r.company_name]>>
                   /\ IsStrong(after)
                   /\ after.id = r.id
              ELSE /\ last'.ret.err = ""
                   /\ last'.ret.rows = <<>>
                   /\ profiles' = profiles ]_vars

\* A legacy login has just succeeded and upgraded the stored hash.
C3_Witness ==
    /\ last.op = "authenticate_user"
    /\ last.changed
    /\ Len(last.ret.rows) = 1
    /\ IsStrong(ProfileOf(profiles, last.cnpj))

\* C4: right after authenticate_user has upgraded a profile's hash, no
\* legacy hash is stored for it, and authenticate_user and
\* verify_user_password accept a password for that tax-ID exactly when it is
\* the password the upgrading call was given.
C4_UpgradedVerifies ==
    (last.op = "authenticate_user" /\ last.changed)
    => LET r == ProfileOf(profiles, last.cnpj) IN
       /\ ~IsLegacy(r)
       /\ IsStrong(r)
       /\ \A p \in Passwords, s \in Salts :
            (Len(authenticate_user(Db, last.cnpj, p, s).ret.rows) = 1) <=> (p = last.password)
       /\ \A p \in Passwords, uid \in UserIdInputs :
            verify_user_password(Db, uid, p, last.cnpj).ret.bool
              = IF p = last.password THEN SQL_TRUE ELSE SQL_FALSE

\* After an upgrade the upgrading password verifies and another one does not.
C4_Witness ==
    /\ last.op = "authenticate_user" /\ last.changed
    /\ verify_user_password(Db, NULL, last.password, last.cnpj).ret.bool = SQL_TRUE
    /\ \E p \in Passwords : verify_user_password(Db, NULL, p, last.cnpj).ret.bool = SQL_FALSE

\* The stored hash of r is a hash of password p: the legacy digest of the
\* salted text, or a strong hash of it under some salt.
Verifies(r, p) ==
    \/ r.password_hash = <<"hex", p \o r.cnpj \o "bpo_salt">>
    \/ \E s \in Salts : r.password_hash = <<"$", s, p \o r.cnpj \o "bpo_salt">>

\* C5: update_user_password returns TRUE or changes a profile only if the
\* current password verifies against the hash stored for the tax-ID; in
\* every other case it returns FALSE and no profile changes, profiles
\* without a stored hash included.
C5_UpdateRequiresCurrent ==
    [][ last'.op = "update_user_password"
        => LET ok == \E r \in profiles : r.cnpj = last'.cnpj /\ Verifies(r, last'.password)
           IN  /\ (last'.ret.bool = SQL_TRUE \/ profiles' # profiles) => ok
               /\ ~ok => (last'.ret.bool = SQL_FALSE /\ profiles' = profiles) ]_vars

\* The managed-auth identity of tax-ID c accepts password p.
IdentityAccepts(c, p) ==
    \E u \in authUsers : u.email = c \o "@bpo.local" /\ u.password = p

\* C6: a failed authentication has one output whether or not the tax-ID is
\* known: authenticate_user returns the empty result without error, and
\* signIn reports 'CNPJ ou senha incorretos', when no profile of the tax-ID
\* (and for signIn no identity either) accepts the password.
C6_FailureUndifferentiated ==
    [][ /\ (last'.op = "authenticate_user"
              /\ ~\E r \in profiles : r.cnpj = last'.cnpj /\ Verifies(r, last'.password))
           => (last'.ret = [err |-> "", rows |-> <<>>, bool |-> "-", uuid |-> <<>>]
                 /\ UNCHANGED dbVars)
        /\ (last'.op = "signIn"
              /\ ~IdentityAccepts(last'.cnpj, last'.password)
              /\ ~\E r \in profiles : r.cnpj = last'.cnpj /\ Verifies(r, last'.password))
           => (last'.error = "CNPJ ou senha incorretos"
                 /\ last'.ret = [err |-> "", rows |-> <<>>, bool |-> "-", uuid |-> <<>>]
                 /\ UNCHANGED dbVars) ]_vars

\* signIn has failed on a known tax-ID, a profile without the password given.
C6_Witness ==
    /\ last.op = "signIn" /\ last.error = "CNPJ ou senha incorretos"
    /\ \E r \in profiles : r.cnpj = last.cnpj /\ r.password_hash # NULL
                           /\ ~Verifies(r, last.password)

\* signIn has failed on an unknown tax-ID with the same report.
C6_WitnessUnknown ==
    /\ last.op = "signIn" /\ last.error = "CNPJ ou senha incorretos"
    /\ ~\E r \in profiles : r.cnpj = last.cnpj

\* The rows of table t a step changes: removed, added or rewritten.
Touched(before, after) == (before \ after) \cup (after \ before)

\* C7: under the policies left by all migrations, a select, update or
\* delete through the table API returns or affects only rows whose user_id
\* is the caller's identity, an insert is accepted only for a row whose
\* user_id is the caller's identity, every row a request changes is the
\* caller's, and no policy in force has the expression true.
C7_OwnerOnly ==
    /\ [](/\ \A r \in api.rows \cup api.new : r.user_id = api.caller
          /\ \A q \in policies : q.using # "true" /\ q.check # "true")
    /\ [][ \A r \in Touched(profiles, profiles') \cup Touched(transactions, transactions')
                      \cup Touched(patterns, patterns') :
              r.user_id = api'.caller ]_vars

\* An identity has updated its own transaction while a transaction of
\* another owner is stored.
C7_Witness ==
    /\ api.op = "update" /\ api.table = "transactions" /\ api.rows # {}
    /\ \E r \in transactions : r.user_id # api.caller
    /\ policies # {}

\* C8: a call of verify_user_password or update_user_password that returns
\* returns TRUE or FALSE, never NULL, whatever the profile's stored hash.
C8_BooleanOnly ==
    (last.op \in {"verify_user_password", "update_user_password"} /\ last.ret.err = "")
    => last.ret.bool \in {"TRUE", "FALSE"}

\* C9 as stated: on a legacy-hash match by authenticate_user or
\* update_user_password the stored hash is strong after the call and a
\* user_id that was absent is populated.
C9_UpgradeAndLink ==
    [][ (last'.op \in {"authenticate_user", "update_user_password"}
           /\ \E r \in profiles : r.cnpj = last'.cnpj /\ IsLegacyHashOf(r, last'.password))
        => LET r == ProfileOf(profiles, last'.cnpj)
               after == ProfileOf(profiles', last'.cnpj)
           IN  /\ IsStrong(after)
               /\ r.user_id = NULL => after.user_id # NULL ]_vars

\* C9 amended: on a legacy-hash match authenticate_user stores a strong hash
\* of the password in the same call and leaves user_id as it was;
\* update_user_password, when it returns, returns TRUE, has stored a strong
\* hash and has set an absent user_id to user_id_input (which may be NULL);
\* when it raises, no profile has changed.
C9_UpgradeLinkByUpdate ==
    [][ (last'.op \in {"authenticate_user", "update_user_password"}
           /\ \E r \in profiles : r.cnpj = last'.cnpj /\ IsLegacyHashOf(r, last'.password))
        => LET r == ProfileOf(profiles, last'.cnpj)
               after == ProfileOf(profiles', last'.cnpj)
           IN  IF last'.op = "authenticate_user"
               THEN /\ IsStrong(after) /\ Verifies(after, last'.password)
                    /\ after.user_id = r.user_id
               ELSE IF last'.ret.err = ""
               THEN /\ last'.ret.bool = "TRUE"
                    /\ IsStrong(after) /\ \E p \in Passwords : Verifies(after, p)
                    /\ after.user_id = IF r.user_id # NULL THEN r.user_id ELSE last'.uid
               ELSE profiles' = profiles ]_vars

\* update_user_password has linked the profile that still owns its legacy
\* transaction to the identity passed as user_id_input.
C9_Witness ==
    /\ last.op = "update_user_password" /\ last.changed /\ last.uid # NULL
    /\ \E r \in profiles : /\ r.cnpj = last.cnpj /\ r.user_id = last.uid /\ IsStrong(r)
                           /\ \E t \in transactions : t.user_id = r.id

\* C10: the request handleSubmit sends for 'parcelado' with a count N > 1
\* is one array of exactly N rows with the same owner, type, description,
\* amount, category and installments = N and current_installment 1..N in
\* order; in every other case it is one row with installments = 1 and
\* current_installment = 1.  Each submit step sends one request.
C10_Installments ==
    /\ [](\A j \in 1..Len(sent) :
            LET rows == sent[j].rows
                first == rows[1]
                N == first.installments
            IN  /\ Len(rows) >= 1
                /\ IF first.payment_method = "parcelado" /\ N > 1
                   THEN /\ sent[j].many /\ Len(rows) = N
                        /\ \A k \in 1..N :
                             /\ rows[k].current_installment = k
                             /\ rows[k].installments = N
                             /\ rows[k].user_id = first.user_id
                             /\ rows[k].type = first.type
                             /\ rows[k].description = first.description
                             /\ rows[k].amount = first.amount
                             /\ rows[k].category = first.category
                   ELSE /\ Len(rows) = 1 /\ N = 1 /\ first.current_installment = 1)
    /\ [][ (~loading /\ loading')
           => /\ Len(sent') = Len(sent) + 1
              /\ LET rows == sent'[Len(sent')].rows
                     n == IF formData.paymentMethod = "parcelado"
                          THEN parseInt(formData.installments) ELSE JsNum(1)
                 IN  /\ Len(rows) = IF JsGt(n, 1) THEN n.val ELSE 1
                     /\ \A k \in 1..Len(rows) :
                          /\ rows[k].user_id = user.id
                          /\ rows[k].type = formData.type
                          /\ rows[k].description = formData.description
                          /\ rows[k].category = formData.category
                          /\ rows[k].amount = parseCurrencyInput(formData.amount) ]_vars

\* A request of three installments has been sent.
C10_Witness ==
    /\ sent # <<>>
    /\ Len(sent[1].rows) = 3
    /\ sent[1].rows[3].current_installment = 3

\* 'parcelado' with the count text '1e1' has been sent as one row.
C10_WitnessSingle ==
    /\ sent # <<>>
    /\ Len(sent[1].rows) = 1
    /\ sent[1].rows[1].payment_method = "parcelado"

\* The calendar month <<year, month>> that is i months after the month of date.
MonthAfter(date, i) ==
    LET total == (date[2] - 1) + i IN <<date[1] + (total \div 12), (total % 12) + 1>>

\* C11: the rows of an installment request fall in consecutive calendar
\* months: row k in the month k-1 months after the month of the due date of
\* the form.
C11_ConsecutiveMonths ==
    [][ (~loading /\ loading' /\ sent'[Len(sent')].many)
          => LET rows == sent'[Len(sent')].rows IN
             \A k \in 1..Len(rows) :
                <<rows[k].due_date[1], rows[k].due_date[2]>>
                   = MonthAfter(formData.dueDate, k - 1) ]_vars

\* C12: every row handleSubmit sends has installments >= 1 and
\* 1 <= current_installment <= installments, whatever the payment method
\* and the text of the installments field.
C12_InstallmentBounds ==
    \A i \in 1..Len(sent) : \A k \in 1..Len(sent[i].rows) :
       LET r == sent[i].rows[k] IN
       /\ r.installments >= 1
       /\ 1 <= r.current_installment
       /\ r.current_installment <= r.installments

\* 'parcelado' has been submitted with a non-numeric installments text.
C12_Witness ==
    /\ loading
    /\ formData.paymentMethod = "parcelado"
    /\ formData.installments = <<"a">>
    /\ Len(sent[Len(sent)].rows) = 1

\* a < b on 'YYYY-MM-DD' strings
DateLt(a, b) == DateLe(a, b) /\ a # b

\* The stored row a displayed row was read from.
StoredRow(r) == CHOOSE t \in transactions : t.id = r.id

\* C13: a displayed status is 'vencido' exactly when the stored status is
\* 'pendente' and the due date is strictly before the date of the load; in
\* every other case it is the stored status.
C13_OverdueIffPast ==
    \A r \in shown :
       r.status = IF StoredRow(r).status = "pendente" /\ DateLt(StoredRow(r).due_date, today)
                  THEN "vencido" ELSE StoredRow(r).status

\* C14: a load issues no write: the tables are the same after a
\* loadTransactions step, so every stored status is what it was, also for the
\* rows the load displays as overdue.
C14_LoadWritesNothing ==
    [][ (reloading /\ ~reloading')
          => /\ transactions' = transactions
             /\ profiles' = profiles
             /\ patterns' = patterns
             /\ authUsers' = authUsers ]_vars

\* A load has displayed a stored pending row as overdue.
C14_Witness ==
    \E r \in shown : r.status = "vencido" /\ StoredRow(r).status = "pendente"

\* The calendar day of a transaction under the chosen date field.
ChartDay(t, dateField) ==
    IF dateField = "due_date" THEN t.due_date ELSE getTxnDate(t, dateField).date

\* The positions of the transactions that pass all filters of chart state c.
ChartPassing(c) ==
    LET range == getDateRange(c, ChartNow) IN
    {i \in 1..Len(c.transactions) :
        LET t == c.transactions[i]
            d == getTxnDate(t, c.dateField) IN
        /\ c.typeFilter \in {"ambos", t.type}
        /\ c.categoryFilter \in {"todas", t.category}
        /\ c.descriptionFilter \in {"todas", t.description}
        /\ d # NULL /\ InstantLe(range.start, d) /\ InstantLe(d, range.end)}

RECURSIVE SumAmounts(_, _)
SumAmounts(ts, S) ==
    IF S = {} THEN 0
    ELSE LET i == CHOOSE j \in S : TRUE IN ts[i].amount + SumAmounts(ts, S \ {i})

\* C15: the chart series has one point per distinct calendar day of the
\* passing transactions, each point holds the day's sum of 'entrada' and of
\* 'saida' amounts, no transaction of a day outside the range passes, and
\* the points are in strictly ascending date order.
C15_ChartSeries ==
    chart # NULL =>
      LET ts == chart.transactions
          data == chart.data
          range == getDateRange(chart, ChartNow)
          P == ChartPassing(chart)
          Of(day, type) == {i \in P : ChartDay(ts[i], chart.dateField) = day /\ ts[i].type = type}
      IN /\ Len(data) = Cardinality({ChartDay(ts[i], chart.dateField) : i \in P})
         /\ {data[k].date : k \in 1..Len(data)} = {ChartDay(ts[i], chart.dateField) : i \in P}
         /\ \A k \in 1..Len(data) :
               /\ data[k].entrada = SumAmounts(ts, Of(data[k].date, "entrada"))
               /\ data[k].saida = SumAmounts(ts, Of(data[k].date, "saida"))
         /\ \A k \in 1..(Len(data) - 1) : DateLt(data[k].date, data[k + 1].date)
         /\ \A i \in P : /\ DateLe(range.start.date, ChartDay(ts[i], chart.dateField))
                         /\ DateLe(ChartDay(ts[i], chart.dateField), range.end.date)

\* A custom range has left out a transaction, and the two points of the
\* series come from transactions listed in the opposite order.
C15_Witness ==
    /\ chart # NULL
    /\ chart.period = "custom" /\ chart.customStartDate # NULL /\ chart.customEndDate # NULL
    /\ chart.dateField = "due_date"
    /\ Len(chart.transactions) = 3
    /\ chart.transactions[1].due_date = <<2025, 2, 28>>
    /\ \E i \in 2..3 : chart.transactions[i].due_date = <<2025, 1, 30>>
    /\ Len(chart.data) = 2
    /\ chart.data[1].date = <<2025, 1, 31>> /\ chart.data[1].saida = 40000
    /\ chart.data[2].entrada = 25000

\* C16: when an identity is created (its email is not taken), the creation
\* succeeds; with both cnpj and company_name in the metadata and no profile
\* of that identity, exactly one profile is inserted, linked to the identity
\* and holding the two values; otherwise no profile is inserted.
C16_TriggerCopiesMetadata ==
    [][ (last'.op = "auth.signUp"
           /\ ~\E u \in authUsers : u.email = cnpjToEmail(last'.cnpj))
          => /\ Cardinality(authUsers' \ authUsers) = 1
             /\ last'.ret.err = ""
             /\ LET id == last'.ret.uuid
                    data == last'.data
                IN IF DOMAIN data = {"cnpj", "company_name"}
                        /\ ~\E r \in profiles : r.user_id = id
                   THEN \E r \in profiles' \ profiles :
                           /\ profiles' = profiles \cup {r}
                           /\ r.user_id = id
                           /\ r.cnpj = data.cnpj
                           /\ r.company_name = data.company_name
                   ELSE profiles' = profiles ]_vars

C18_RemovalCascades ==
    [][ last'.op = "DELETE auth.users"
          => \A r \in profiles' \cup transactions' \cup patterns' :
                r.user_id # last'.uid ]_vars

\* C19: when the insert request of handleSubmit returns an error, no further
\* request is sent for the submission, no row is stored, an error
\* notification is shown, the form fields stay as entered, the list is not
\* reloaded and loading is reset to false; a request is only ever sent by a
\* call of handleSubmit on the idle form.
C19_InsertErrorHandled ==
    [][ /\ (loading /\ sent # <<>> /\ api' = InsertResult(Len(sent), {}, api'.err)
                    /\ api'.err # "")
           => /\ sent' = sent
              /\ transactions' = transactions
              /\ toast'.title = "Erro"
              /\ formData' = formData
              /\ reloading' = reloading
              /\ shown' = shown
              /\ loading' = FALSE
        /\ sent' # sent => (~loading /\ loading' /\ Len(sent') = Len(sent) + 1) ]_vars

\* An insert request of a filled-in form has returned an error.
C19_Witness ==
    /\ api.op = "insert"
    /\ api.request = 2
    /\ api.err # ""
    /\ sent # <<>>
    /\ toast # NULL /\ toast.title = "Erro"
    /\ formData # DefaultForm
    /\ ~loading
    /\ transactions = {PaidRow}

\* C20: signIn with the correct password on a tax-ID that has a legacy-only
\* profile (hash stored, not linked, no identity) returns no error and ends
\* with a session of a new identity, the profile linked to it, the legacy
\* transactions owned by it and the context user set to the profile.
C20_LegacySignInMigrates ==
    [][ \A r \in profiles :
          (/\ last'.op = "signIn"
           /\ r.cnpj = last'.cnpj
           /\ r.user_id = NULL
           /\ r.password_hash # NULL
           /\ Verifies(r, last'.password)
           /\ ~\E u \in authUsers : u.email = cnpjToEmail(r.cnpj))
          => /\ last'.error = ""
             /\ \E u \in authUsers' \ authUsers :
                   /\ u.email = cnpjToEmail(r.cnpj)
                   /\ session' = u.id
                   /\ [r EXCEPT !.user_id = u.id] \in profiles'
                   /\ \A t \in transactions' : t.user_id # r.id
                   /\ \A t \in transactions :
                        t.user_id = r.id => [t EXCEPT !.user_id = u.id] \in transactions'
                   /\ user' # NULL /\ user'.cnpj = r.cnpj ]_vars

\* C21: when an authenticate_user call that matched a legacy hash and the
\* only update_user_password call for the same tax-ID have both returned,
\* the latter with TRUE, the stored hash verifies the new password and not
\* the old one.
C21_UpgradeKeepsChange ==
    \A a, u \in pending :
       (/\ a.proc = "authenticate_user" /\ a.done /\ Len(a.ret.rows) = 1
        /\ a.prof.password_hash = md5(Salted(a.password, a.cnpj))
        /\ u.proc = "update_user_password" /\ u.done /\ u.ret.bool = SQL_TRUE
        /\ u.cnpj = a.cnpj
        /\ u.new # u.password
        /\ \A o \in pending : o.proc = "update_user_password" => o = u)
       => \A r \in profiles :
             r.cnpj = u.cnpj => (Verifies(r, u.new) /\ ~Verifies(r, u.password))

\* C22: migrate_legacy_to_auth called by an identity changes the link of a
\* profile, or the owner of a transaction, only for a profile that ends the
\* call linked to the caller; without a profile of the tax-ID nothing
\* changes.
C22_MigrateOwnOnly ==
    [][ (last'.op = "migrate_legacy_to_auth" /\ last'.uid # NULL)
          => /\ \A r \in profiles' \ profiles : r.user_id = last'.uid
             /\ \A t \in transactions \ transactions' :
                   \E r \in profiles' : r.id = t.user_id /\ r.user_id = last'.uid
             /\ (~\E r \in profiles : r.cnpj = last'.cnpj) => UNCHANGED dbVars ]_vars

\* C23: whenever signIn returns without an error, the context user is
\* non-null, its id is the identity of the session just created, and the
\* same value is stored under 'bpo_user', also when no profile is linked to
\* that identity.
C23_SignInSetsUser ==
    [][ (last'.op = "signIn" /\ last'.error = "")
          => /\ session' # NULL
             /\ user' # NULL
             /\ user'.id = session'
             /\ bpo_user' = user' ]_vars

\* C24: once initAuth has finished, the context user is non-null only if a
\* session exists whose identity is user.id.
C24_UserHasSession ==
    ~authLoading => (user # NULL => (session # NULL /\ session = user.id))

\* C25: every signOut call ends with the context user null, 'bpo_user'
\* removed and the page at /auth, whatever the backend sign-out did.
C25_SignOutClears ==
    [][ last'.op = "signOut"
          => (user' = NULL /\ bpo_user' = NULL /\ location' = "/auth") ]_vars

\* A signed-in user has signed out while the backend sign-out threw.
C25_Witness ==
    /\ last.op = "signOut"
    /\ last.uid # NULL
    /\ last.error = "throws"
    /\ user = NULL /\ bpo_user = NULL /\ location = "/auth"

\* C26: a migrate_legacy_to_auth call that directly follows a call with the
\* same tax-ID by the same caller leaves every profile and every
\* transaction as the first call left them.
C26_MigrateIdempotent ==
    [][ (/\ last.op = "migrate_legacy_to_auth"
         /\ last'.op = "migrate_legacy_to_auth"
         /\ last'.uid = last.uid
         /\ last'.cnpj = last.cnpj)
          => (profiles' = profiles /\ transactions' = transactions) ]_vars

\* A call by an identity has changed nothing on a profile linked to the
\* caller whose transactions the caller owns: the state a repeated call is
\* made in and leaves.
C26_Witness ==
    /\ last.op = "migrate_legacy_to_auth"
    /\ last.uid # NULL
    /\ last.ret.err = ""
    /\ ~last.changed
    /\ \E r \in profiles : r.cnpj = last.cnpj /\ r.user_id = last.uid
    /\ \E t \in transactions : t.user_id = last.uid

\* C29: a successful update_user_password call never changes an existing
\* link: the profile's user_id is its previous value when it had one and
\* user_id_input when it had none, and nothing but password_hash and user_id
\* of that one profile changes.
C29_UpdateKeepsLink ==
    [][ (last'.op = "update_user_password" /\ last'.ret.bool = SQL_TRUE)
          => /\ authUsers' = authUsers
             /\ transactions' = transactions
             /\ \E r \in profiles :
                  /\ r.cnpj = last'.cnpj
                  /\ \E h \in {crypt(Salted(p, r.cnpj), gen_salt(s)) :
                                  p \in Passwords, s \in Salts} :
                       profiles' = (profiles \ {r}) \cup
                          {[r EXCEPT !.password_hash = h,
                                     !.user_id = IF r.user_id # NULL THEN r.user_id
                                                 ELSE last'.uid]} ]_vars

\* A password change has succeeded on a profile linked to an identity other
\* than the user_id_input of the call.
C29_Witness ==
    /\ last.op = "update_user_password"
    /\ last.ret.bool = SQL_TRUE
    /\ last.changed
    /\ last.uid # NULL
    /\ \E r \in profiles : r.cnpj = last.cnpj /\ r.user_id # NULL /\ r.user_id # last.uid

\* C27: once every fetch of AnalyticsTab has answered, and the last answer
\* was not an error, the series and totals shown are those of the current
\* filter values and loading is false.
C27_LatestFiltersShown ==
    (/\ analytics # NULL
     /\ analytics.fetches = {}
     /\ analytics.ranging = 0
     /\ api.op = "select" /\ api.err = "")
    => LET txs == AnalyticsQuery(Filters(analytics), user, transactions) IN
       /\ analytics.data = AnalyticsSeries(Filters(analytics), txs, analytics.tz)
       /\ analytics.totals = AnalyticsTotals(txs)
       /\ ~analytics.loading

\* C28: the series a fetch with start date <= end date sets has exactly one
\* point for each day from the start date to the end date, in ascending
\* order, with 0 and 0 on the days without transactions, and the totals set
\* are the sums of the points.
C28_OnePointPerDay ==
    [][\A fetch \in (IF analytics = NULL THEN {} ELSE analytics.fetches) :
         (/\ api'.op = "select" /\ api'.err = "" /\ api'.request = fetch.id
          /\ fetch \notin analytics'.fetches
          /\ fetch.f.startDate # NULL /\ fetch.f.endDate # NULL
          /\ DateLe(fetch.f.startDate, fetch.f.endDate))
         => LET data == analytics'.data
                days == {d \in {PlusDays(fetch.f.startDate, n) : n \in 0..31} :
                           DateLe(d, fetch.f.endDate)}
            IN /\ {data[i].date : i \in DOMAIN data} = days
               /\ Len(data) = Cardinality(days)
               /\ \A i \in DOMAIN data : \A j \in DOMAIN data :
                     i < j => (DateLe(data[i].date, data[j].date) /\ data[i].date # data[j].date)
               /\ \A i \in DOMAIN data :
                     (\A t \in api'.rows : AnalyticsKey(t, fetch.f.dateField) # data[i].date)
                     => (data[i].entrada = 0 /\ data[i].saida = 0)
               /\ analytics'.totals.entrada = SumOver(data, "entrada")
               /\ analytics'.totals.saida = SumOver(data, "saida")]_vars

\* C30: the password PasswordSection shows in plaintext is one the stored
\* hash verifies: it was accepted by verify_user_password or by the
\* authenticate_user fallback and no password change has succeeded since.
C30_PlaintextIsCurrent ==
    (passwordSection # NULL /\ Plaintext(passwordSection) # "")
    => \A r \in profiles : r.cnpj = user.cnpj => Verifies(r, Plaintext(passwordSection))

====
